---- MODULE Spec2Model ----
(***************************************************************************)
(* kube-watchtower: the reconciliation cycle (Watcher.check), the rollout  *)
(* executor (Watcher.updateContainer, Client.UpdateWorkloadImage,          *)
(* Client.WaitForRollout), image reference parsing (ParseImage) and the    *)
(* notifier's per-cycle result list.                                       *)
(*                                                                         *)
(* Strings are sequences of tokens.  A token is either one of the          *)
(* separators ":", "@", "/" or a word that contains no separator, so that  *)
(* strings.Split, strings.Index and fmt.Sprintf are computed as the code   *)
(* computes them.  The byte length of a string is the sum of the lengths   *)
(* of its tokens.                                                          *)
(***************************************************************************)
EXTENDS Integers, Sequences, FiniteSets, TLC

VARIABLES
    \* cluster (environment)
    tmpl,        \* workload -> pod template containers, <<[name, image]>>
    imageID,     \* workload -> container name -> imageID reported by the pod
    rolling,     \* workload -> a patched template is not yet rolled out
    remote,      \* registry: image name "repo:tag" -> published digest
    \* configuration
    disabled,    \* Config.DisableContainers
    enabled,     \* Notifier.enabled
    \* process
    pc,          \* position of the process
    inventory,   \* result of ListWorkloads, flattened in iteration order
    idx,         \* position of the loop of check in inventory
    scanned,     \* scannedCount
    updated,     \* updatedCount
    failed,      \* failedCount
    results,     \* Notifier.results
    newDigest,   \* newDigest of the container being updated
    elapsed,     \* seconds since WaitForRollout started
    \* observations
    cycle,       \* cycles started so far
    published,   \* registry changes so far
    log,         \* per inventory position: what this cycle did with it
    patchCalls,  \* UpdateWorkloadImage calls of this cycle
    sent,        \* summaries sent in this cycle
    \* pure-function harness
    pPhase, pImage, pDigest, pInfo, pNew,
    \* matchesRegistry on a pair of registry strings
    mPhase,      \* "off", "input" or "matched"
    mImage,      \* how the image registry string is written
    mSecret,     \* how the secret's registry string is written
    mMatch,      \* result of matchesRegistry
    \* the credential lookup of one container
    cPhase,      \* "off", "input" or "requested"
    cImage,      \* container.Image
    cSecrets,    \* workload.ImagePullSecrets, the secrets in declaration order
    cParsed,     \* what GetImagePullSecret returned for each secret read
    cCred,       \* credentials: <<>> is nil
    cAuth,       \* how getRemoteDigest authenticated
    cOutcome,    \* "none", "resolved" or "digestfail"
    \* isRolloutComplete on one workload object
    rPhase,      \* "off", "input" or "checked"
    rKind,       \* workloadType
    rObj,        \* the object read from the cluster
    rComplete,   \* result of isRolloutComplete
    \* one call of WaitForRollout
    wPhase,      \* "off", "waiting" or "returned"
    wObj,        \* the Deployment as the cluster reports it now
    wElapsed,    \* seconds since the call
    wCancelled,  \* the parent context is cancelled
    wResult,     \* "none", "nil", "timeout" or "error"
    \* the end of updateContainer for workload "web", after its rollout
    kPhase,      \* "off", "rolled" or "done"
    kKind,       \* workload.Type
    kCleanup,    \* Config.Cleanup
    kListed,     \* what the List call of the cleanup returns, in its order
    kDeleted,    \* the objects deleted
    kRefused,    \* the objects whose delete failed
    kCleanupErr, \* what CleanupOldResources returned
    kReturn,     \* what updateContainer returned
    kUpdated,    \* updatedCount
    kOutcome,    \* the result added for the container
    \* the process: main, its signal goroutine and Watcher.Run
    mainPc,      \* main: "off", "run", "waitdone", "stopped", "fatal", "exited"
    runPc,       \* Run: "first", "check", "checked", "ticker", "returned", "exited"
    runErr,      \* what Run returned: "none", "nil", "canceled" or "error"
    handlerPc,   \* goroutine: "select", "signalled", "closedSig", "closedCtx"
    sigCh,       \* signals buffered in sigCh (capacity 1)
    ctxDone,     \* ctx is cancelled
    notifying,   \* signal.Notify is in force (signal.Stop not yet called)
    runOnce,     \* Run makes one check and returns
    checks,      \* calls of check so far
    checkRes,    \* the last check: its error, patch calls and summaries
    logged,      \* errors Run has logged
    \* the inventory reader: one call of Client.ListWorkloads by check
    lPhase,      \* "off", "input", "listed", "scanned" or "failed"
    lCluster,    \* the workloads of the cluster with their pods, in list order
    lFail,       \* the List call that fails: "none" or a kind
    lExclude,    \* Config.DisableNamespaces
    lResult,     \* what ListWorkloads returned
    lScanned,    \* the <<workload, container>> pairs the loop of check went over
    \* the cycle of the revision that tracks the tag latest only
    tPhase,      \* "off", "input", "check" or "done"
    tInput,      \* the pod template, the deny-list and the running digests
    tInventory,  \* what ListWorkloads returned, containers flattened
    tLog,        \* the position in the loop, the counters and the calls made
    \* one call of updateContainer by check, and what check records for it
    uPc,         \* "off", "patch", "wait", "cleanup", "nil", "err" or "recorded"
    uCfg,        \* Config.Cleanup and whether the notifier is enabled
    uElapsed,    \* seconds WaitForRollout has waited
    uTrace,      \* the calls made and what they returned, in order
    uOut,        \* updatedCount, failedCount and the results of the notifier
    \* one call of UpdateWorkloadImage against the API server
    iPc,         \* "off", "get", "set", "nil" or "err"
    iCall,       \* the arguments of the call and the value of time.Now
    iServer,     \* the workload object the API server stores
    iHeld        \* the object the call holds after Get

vars == <<tmpl, imageID, rolling, remote, disabled, enabled, pc, inventory, idx,
          scanned, updated, failed, results, newDigest, elapsed, cycle,
          published, log, patchCalls, sent, pPhase, pImage, pDigest, pInfo, pNew,
          mPhase, mImage, mSecret, mMatch,
          cPhase, cImage, cSecrets, cParsed, cCred, cAuth, cOutcome,
          rPhase, rKind, rObj, rComplete,
          wPhase, wObj, wElapsed, wCancelled, wResult,
          kPhase, kKind, kCleanup, kListed, kDeleted, kRefused, kCleanupErr,
          kReturn, kUpdated, kOutcome,
          mainPc, runPc, runErr, handlerPc, sigCh, ctxDone, notifying, runOnce,
          checks, checkRes, logged,
          lPhase, lCluster, lFail, lExclude, lResult, lScanned,
          tPhase, tInput, tInventory, tLog,
          uPc, uCfg, uElapsed, uTrace, uOut,
          iPc, iCall, iServer, iHeld>>

clusterVars == <<tmpl, imageID, rolling, remote>>
configVars == <<disabled, enabled>>
parseVars == <<pPhase, pImage, pDigest, pInfo, pNew>>
matchVars == <<mPhase, mImage, mSecret, mMatch>>
credVars == <<cPhase, cImage, cSecrets, cParsed, cCred, cAuth, cOutcome>>
completeVars == <<rPhase, rKind, rObj, rComplete>>
waitVars == <<wPhase, wObj, wElapsed, wCancelled, wResult>>
cleanupVars == <<kPhase, kKind, kCleanup, kListed, kDeleted, kRefused, kCleanupErr,
                 kReturn, kUpdated, kOutcome>>
mainVars == <<mainPc, runPc, runErr, handlerPc, sigCh, ctxDone, notifying, runOnce,
              checks, checkRes, logged>>
listVars == <<lPhase, lCluster, lFail, lExclude, lResult, lScanned>>
tagVars == <<tPhase, tInput, tInventory, tLog>>
updateVars == <<uPc, uCfg, uElapsed, uTrace, uOut>>
imageVars == <<iPc, iCall, iServer, iHeld>>
moreVars == <<mainVars, listVars, tagVars, updateVars, imageVars>>
componentVars == <<matchVars, credVars, completeVars, waitVars, cleanupVars, moreVars>>

----------------------------------------------------------------------------
(* Bounds *)

MaxCycles == 2
MaxPublish == 1
MaxImageLen == 5

(* Program constants *)

RolloutTimeout == 300
PollInterval == 2
ShortDigestLen == 12

----------------------------------------------------------------------------
(* Strings *)

Empty == <<>>

RECURSIVE ByteLen(_)
ByteLen(s) == IF s = <<>> THEN 0 ELSE Len(Head(s)) + ByteLen(Tail(s))

\* strings.Index for a one-byte separator: first position, 0 when absent
Index(s, sep) ==
    IF \E i \in 1..Len(s) : s[i] = sep
    THEN CHOOSE i \in 1..Len(s) : s[i] = sep /\ \A j \in 1..(i - 1) : s[j] # sep
    ELSE 0

\* strings.Split: the pieces between the occurrences of sep; one piece (s
\* itself, also when s is empty) when sep does not occur
RECURSIVE Split(_, _)
Split(s, sep) ==
    IF Index(s, sep) = 0 THEN <<s>>
    ELSE <<SubSeq(s, 1, Index(s, sep) - 1)>>
         \o Split(SubSeq(s, Index(s, sep) + 1, Len(s)), sep)

Contains(s, sep) == Index(s, sep) # 0

----------------------------------------------------------------------------
(* Digests.  The registry client returns v1.Hash.String(): the algorithm,  *)
(* ":" and 64 hex digits.  ShortA and ShortB are the digest strings        *)
(* "sha256:aaa" and "sha256:bbb".                                          *)

HexA == "aaaaaaaaaaaaaaaaaaaaaaaaaaaaaaaaaaaaaaaaaaaaaaaaaaaaaaaaaaaaaaaa"
HexB == "bbbbbbbbbbbbbbbbbbbbbbbbbbbbbbbbbbbbbbbbbbbbbbbbbbbbbbbbbbbbbbbb"
HexAUpper == "AAAAAAAAAAAAAAAAAAAAAAAAAAAAAAAAAAAAAAAAAAAAAAAAAAAAAAAAAAAAAAAA"

Sha(hex) == <<"sha256", ":", hex>>
DigA == Sha(HexA)
DigB == Sha(HexB)
DigAUpper == <<"SHA256", ":", HexAUpper>>
ShortA == Sha("aaa")
ShortB == Sha("bbb")

\* strings.ToLower, token by token
LowerTok(t) ==
    CASE t = HexAUpper -> HexA
      [] t = "SHA256" -> "sha256"
      [] t = "Nginx" -> "nginx"
      [] t = "INDEX.DOCKER.IO" -> "index.docker.io"
      [] t = "DOCKER.IO" -> "docker.io"
      [] t = "REGISTRY-1.DOCKER.IO" -> "registry-1.docker.io"
      [] t = "REGISTRY.HUB.DOCKER.COM" -> "registry.hub.docker.com"
      [] t = "GHCR.IO" -> "ghcr.io"
      [] t = "QUAY.IO" -> "quay.io"
      [] t = "V1" -> "v1"
      [] OTHER -> t

ToLower(s) == [i \in 1..Len(s) |-> LowerTok(s[i])]

----------------------------------------------------------------------------
(* package registry *)

Latest == <<"latest">>

\* ParseImage with the two pieces around "@" taken the wrong way round
ParseImageSwapped(image) ==
    LET byAt == Split(image, "@")
        name == IF Len(byAt) > 1 THEN byAt[2] ELSE image
        byColon == Split(name, ":")
    IN  [Repository |-> byColon[1],
         Tag |-> IF Len(byColon) > 1 THEN byColon[2] ELSE Latest,
         Digest |-> IF Len(byAt) > 1 THEN byAt[1] ELSE Empty]

\* ParseImage: the digest is the piece after the first "@", the repository
\* the piece before the first ":" of what precedes it, the tag the piece
\* after that ":" ("latest" when there is none)
ParseImage(image) ==
    LET byAt == Split(image, "@")
        name == IF Len(byAt) > 1 THEN byAt[1] ELSE image
        byColon == Split(name, ":")
    IN  [Repository |-> byColon[1],
         Tag |-> IF Len(byColon) > 1 THEN byColon[2] ELSE Latest,
         Digest |-> IF Len(byAt) > 1 THEN byAt[2] ELSE Empty]

\* fmt.Sprintf("%s:%s", imageInfo.Repository, imageInfo.Tag)
ImageName(info) == info.Repository \o <<":">> \o info.Tag

\* name.ParseReference rejects a name with an upper-case repository
ReferenceParses(name) == \A i \in 1..Len(name) : name[i] # "Nginx"

\* CheckForUpdate reporting no update by itself
HasUpdateNever == FALSE

\* CheckForUpdate's first result: always true, the caller compares
HasUpdate == TRUE

----------------------------------------------------------------------------
(* package watcher *)

\* fmt.Sprintf("%s:%s@%s", imageInfo.Repository, imageInfo.Tag, newDigest)
NewImage(image, digest) ==
    ParseImage(image).Repository \o <<":">> \o ParseImage(image).Tag
        \o <<"@">> \o digest

\* the comparison made with strings.EqualFold
DigestMatchesFold(cur, new) == ToLower(cur) = ToLower(new)

\* container.CurrentDigest == newDigest
DigestMatches(cur, new) == cur = new

\* newDigest[:12] panics when the string is shorter
SliceInRange(digest) == ByteLen(digest) >= ShortDigestLen

\* a deny-list that is never consulted
IsContainerDisabledNever(name) == FALSE

\* Config.IsContainerDisabled
IsContainerDisabled(name) == name \in disabled

----------------------------------------------------------------------------
(* package k8s *)

\* extractDigestFromImageID: what follows the first "@", "" without "@"
extractDigestFromImageID(id) ==
    IF Index(id, "@") = 0 THEN Empty
    ELSE SubSeq(id, Index(id, "@") + 1, Len(id))

\* an update that writes the image to every container of the template
updateContainerImageAll(containers, name, image) ==
    [i \in 1..Len(containers) |-> [containers[i] EXCEPT !.image = image]]

\* updateContainerImage: the first container with the name gets the image
updateContainerImage(containers, name, image) ==
    [i \in 1..Len(containers) |->
        IF /\ containers[i].name = name
           /\ \A j \in 1..(i - 1) : containers[j].name # name
        THEN [containers[i] EXCEPT !.image = image]
        ELSE containers[i]]

\* a lookup that reports every container name as present
HasContainerAlways(containers, name) == TRUE

\* updateContainerImage returns nil: some container has the name
HasContainer(containers, name) ==
    \E i \in 1..Len(containers) : containers[i].name = name

\* metav1 label selector -> pods -> first running pod -> ImageID by container
\* name -> extractDigestFromImageID; "" when no pod could be inspected
CurrentDigest(w, name, seen) ==
    IF seen[w] THEN extractDigestFromImageID(imageID[w][name]) ELSE Empty

\* processWorkload: the containers of one workload, with their digests
processWorkload(w, seen) ==
    [i \in 1..Len(tmpl[w]) |->
        [w |-> w,
         name |-> tmpl[w][i].name,
         image |-> tmpl[w][i].image,
         cur |-> CurrentDigest(w, tmpl[w][i].name, seen)]]

----------------------------------------------------------------------------
(* The cluster and the registry of the model *)

Workloads == {"web"}
WorkloadOrder == <<"web">>

ImgNginx == <<"nginx">>
ImgPort == <<"reg", ":", "5000", "/", "app", ":", "v1">>
ImgUpper == <<"Nginx">>
ImgRedis == <<"redis", ":", "7">>

ImagePool == {ImgNginx, ImgPort, ImgUpper}

\* the image names the registry is asked for
Names == {ImageName(ParseImage(i)) : i \in {ImgNginx, ImgPort, ImgRedis}}

\* imageID of a pod container: with the digest pulled, or without any
Pullable(digest) == <<"docker-pullable://repo", "@">> \o digest
LocalID == <<"docker://sha256", ":", HexA>>

ImageIDPool == {LocalID, Pullable(DigA), Pullable(DigB), Pullable(DigAUpper)}

PublishDigests == {DigA, DigB}

\* ListWorkloads: the workloads in listing order, containers flattened
RECURSIVE ListFrom(_, _)
ListFrom(k, seen) ==
    IF k > Len(WorkloadOrder) THEN <<>>
    ELSE processWorkload(WorkloadOrder[k], seen) \o ListFrom(k + 1, seen)

ListWorkloads(seen) == ListFrom(1, seen)

----------------------------------------------------------------------------
(* Observations kept for the properties *)

NoLog == [requested |-> FALSE, resolved |-> FALSE, digest |-> Empty,
          outcome |-> "none", waited |-> 0]

\* a reset that keeps what the notifier holds
ResetKeeps == results

\* Notifier.Reset: n.results = make([]UpdateResult, 0)
Reset == <<>>

\* a notifier that keeps every result twice
AddResultTwice(rs, image, success, pos) ==
    IF enabled
    THEN rs \o <<[image |-> image, success |-> success, pos |-> pos],
                 [image |-> image, success |-> success, pos |-> pos]>>
    ELSE rs

\* Notifier.AddResult (pos is the inventory position, kept for the properties)
AddResult(rs, image, success, pos) ==
    IF enabled THEN Append(rs, [image |-> image, success |-> success, pos |-> pos])
    ELSE rs

\* a summary that counts against the outcomes it lists
buildSummaryMessageOfListed(rs, totalCount) ==
    [successList |-> SelectSeq(rs, LAMBDA r : r.success),
     failList |-> SelectSeq(rs, LAMBDA r : ~r.success),
     successCount |-> Len(SelectSeq(rs, LAMBDA r : r.success)),
     totalCount |-> Len(rs)]

\* Notifier.buildSummaryMessage: the two lists and "Updated: X/Y"
buildSummaryMessage(rs, totalCount) ==
    [successList |-> SelectSeq(rs, LAMBDA r : r.success),
     failList |-> SelectSeq(rs, LAMBDA r : ~r.success),
     successCount |-> Len(SelectSeq(rs, LAMBDA r : r.success)),
     totalCount |-> totalCount]

\* Notifier.SendSummary: nothing when disabled or when there is no result
SendSummary(rs, totalCount) ==
    IF enabled /\ rs # <<>> THEN <<buildSummaryMessage(rs, totalCount)>> ELSE <<>>

\* check, lines 114-126: with a known digest compare, otherwise follow
\* CheckForUpdate's hasUpdate
UpdateNeeded(cur, new) ==
    IF cur # Empty THEN ~DigestMatches(cur, new) ELSE HasUpdate

----------------------------------------------------------------------------
(* Initial states *)

ParseOff ==
    /\ pPhase = "off"
    /\ pImage = Empty
    /\ pDigest = Empty
    /\ pInfo = ParseImage(Empty)
    /\ pNew = Empty

NoWriting == [host |-> "", scheme |-> "", path |-> FALSE, slash |-> FALSE, upper |-> FALSE]

MatchOff ==
    /\ mPhase = "off"
    /\ mImage = NoWriting
    /\ mSecret = NoWriting
    /\ mMatch = FALSE

CredOff ==
    /\ cPhase = "off"
    /\ cImage = Empty
    /\ cSecrets = <<>>
    /\ cParsed = <<>>
    /\ cCred = <<>>
    /\ cAuth = "none"
    /\ cOutcome = "none"

CompleteOff ==
    /\ rPhase = "off"
    /\ rKind = "none"
    /\ rObj = <<>>
    /\ rComplete = FALSE

WaitOff ==
    /\ wPhase = "off"
    /\ wObj = <<>>
    /\ wElapsed = 0
    /\ wCancelled = FALSE
    /\ wResult = "none"

CleanupOff ==
    /\ kPhase = "off"
    /\ kKind = "none"
    /\ kCleanup = FALSE
    /\ kListed = <<>>
    /\ kDeleted = {}
    /\ kRefused = {}
    /\ kCleanupErr = "none"
    /\ kReturn = "none"
    /\ kUpdated = 0
    /\ kOutcome = "none"

NoCheck == [err |-> FALSE, patches |-> 0, sent |-> 0]

MainOff ==
    /\ mainPc = "off"
    /\ runPc = "off"
    /\ runErr = "none"
    /\ handlerPc = "off"
    /\ sigCh = 0
    /\ ctxDone = FALSE
    /\ notifying = FALSE
    /\ runOnce = FALSE
    /\ checks = 0
    /\ checkRes = NoCheck
    /\ logged = 0

ListOff ==
    /\ lPhase = "off"
    /\ lCluster = <<>>
    /\ lFail = "none"
    /\ lExclude = <<>>
    /\ lResult = [err |-> FALSE, workloads |-> <<>>]
    /\ lScanned = {}

TagOff ==
    /\ tPhase = "off"
    /\ tInput = <<>>
    /\ tInventory = <<>>
    /\ tLog = <<>>

NoOutcome == [updated |-> 0, failed |-> 0, results |-> <<>>]

UpdateOff ==
    /\ uPc = "off"
    /\ uCfg = [cleanup |-> FALSE, enabled |-> FALSE]
    /\ uElapsed = 0
    /\ uTrace = <<>>
    /\ uOut = NoOutcome

NoObject == [version |-> 0, containers |-> <<>>, annotations |-> <<>>]

ImageOff ==
    /\ iPc = "off"
    /\ iCall = <<>>
    /\ iServer = NoObject
    /\ iHeld = NoObject

MoreOff == MainOff /\ ListOff /\ TagOff /\ UpdateOff /\ ImageOff

ComponentsOff ==
    /\ MatchOff
    /\ CredOff
    /\ CompleteOff
    /\ WaitOff
    /\ CleanupOff
    /\ MoreOff

ProcessInit ==
    /\ pc = "idle"
    /\ inventory = <<>>
    /\ idx = 1
    /\ scanned = 0
    /\ updated = 0
    /\ failed = 0
    /\ results = <<>>
    /\ newDigest = Empty
    /\ elapsed = 0
    /\ cycle = 0
    /\ published = 0
    /\ log = <<>>
    /\ patchCalls = <<>>
    /\ sent = <<>>

Init ==
    /\ \E i1 \in ImagePool :
          tmpl = [w \in Workloads |->
                    <<[name |-> "nginx", image |-> i1],
                      [name |-> "redis", image |-> ImgRedis]>>]
    /\ \E id1 \in ImageIDPool :
          imageID = [w \in Workloads |-> [nginx |-> id1, redis |-> Pullable(DigA)]]
    /\ rolling = [w \in Workloads |-> FALSE]
    /\ remote = [n \in Names |-> DigA]
    /\ disabled \in {{}, {"redis"}}
    /\ enabled \in BOOLEAN
    /\ ProcessInit
    /\ ParseOff
    /\ ComponentsOff

----------------------------------------------------------------------------
(* Watcher.check *)

\* check, lines 59-77: Reset, ListWorkloads succeeded
StartCycle ==
    /\ pc = "idle"
    /\ cycle < MaxCycles
    /\ cycle' = cycle + 1
    /\ results' = Reset
    /\ \E seen \in [Workloads -> BOOLEAN] :
          /\ inventory' = ListWorkloads(seen)
          /\ log' = [i \in 1..Len(ListWorkloads(seen)) |-> NoLog]
    /\ idx' = 1
    /\ scanned' = 0
    /\ updated' = 0
    /\ failed' = 0
    /\ patchCalls' = <<>>
    /\ sent' = <<>>
    /\ pc' = "scan"
    /\ UNCHANGED <<clusterVars, configVars, newDigest, elapsed, published, parseVars, componentVars>>

\* check, lines 68-71: ListWorkloads failed, check returns the error and
\* Run logs it
ListFails ==
    /\ pc = "idle"
    /\ cycle < MaxCycles
    /\ cycle' = cycle + 1
    /\ results' = Reset
    /\ inventory' = <<>>
    /\ log' = <<>>
    /\ idx' = 1
    /\ scanned' = 0
    /\ updated' = 0
    /\ failed' = 0
    /\ patchCalls' = <<>>
    /\ sent' = <<>>
    /\ pc' = "idle"
    /\ UNCHANGED <<clusterVars, configVars, newDigest, elapsed, published, parseVars, componentVars>>

\* the loop goes on with the next container
Continue ==
    /\ idx' = idx + 1
    /\ pc' = "scan"

\* a failure that is counted but not handed to the notifier
RecordFailureUnreported(outcome, waited) ==
    /\ results' = results
    /\ failed' = failed + 1
    /\ log' = [log EXCEPT ![idx].requested = TRUE,
                          ![idx].outcome = outcome,
                          ![idx].waited = waited]
    /\ elapsed' = 0
    /\ Continue

\* a failure outcome: AddResult(image, false, err), failedCount++, continue
RecordFailure(outcome, waited) ==
    /\ results' = AddResult(results, inventory[idx].image, FALSE, idx)
    /\ failed' = failed + 1
    /\ log' = [log EXCEPT ![idx].requested = TRUE,
                          ![idx].outcome = outcome,
                          ![idx].waited = waited]
    /\ elapsed' = 0
    /\ Continue

\* check, lines 81-133: one container up to the decision
CheckContainer ==
    /\ pc = "scan"
    /\ idx <= Len(inventory)
    /\ LET c == inventory[idx]
           name == ImageName(ParseImage(c.image))
       IN  IF IsContainerDisabled(c.name)
           THEN /\ log' = [log EXCEPT ![idx].outcome = "skipped"]
                /\ Continue
                /\ UNCHANGED <<scanned, failed, results, newDigest, elapsed>>
           ELSE /\ scanned' = scanned + 1
                /\ IF ~ReferenceParses(name)
                   THEN \* getRemoteDigest: logger.Fatalf ends the process
                        /\ pc' = "fatal"
                        /\ log' = [log EXCEPT ![idx].requested = TRUE,
                                              ![idx].outcome = "fatal"]
                        /\ UNCHANGED <<idx, failed, results, newDigest, elapsed>>
                   ELSE \E ok \in BOOLEAN :
                        IF ~ok
                        THEN \* remote.Get failed
                             /\ RecordFailure("digestfail", 0)
                             /\ UNCHANGED newDigest
                        ELSE IF ~UpdateNeeded(c.cur, remote[name])
                        THEN /\ log' = [log EXCEPT ![idx].requested = TRUE,
                                                   ![idx].resolved = TRUE,
                                                   ![idx].digest = remote[name],
                                                   ![idx].outcome = "uptodate"]
                             /\ Continue
                             /\ UNCHANGED <<failed, results, newDigest, elapsed>>
                        ELSE IF ~SliceInRange(remote[name])
                        THEN \* newDigest[:12]: slice bounds out of range
                             /\ pc' = "panic"
                             /\ log' = [log EXCEPT ![idx].requested = TRUE,
                                                   ![idx].resolved = TRUE,
                                                   ![idx].digest = remote[name],
                                                   ![idx].outcome = "panic"]
                             /\ UNCHANGED <<idx, failed, results, newDigest, elapsed>>
                        ELSE /\ newDigest' = remote[name]
                             /\ pc' = "patch"
                             /\ log' = [log EXCEPT ![idx].requested = TRUE,
                                                   ![idx].resolved = TRUE,
                                                   ![idx].digest = remote[name],
                                                   ![idx].outcome = "updating"]
                             /\ UNCHANGED <<idx, failed, results, elapsed>>
    /\ UNCHANGED <<clusterVars, configVars, inventory, updated, cycle,
                   published, patchCalls, sent, parseVars, componentVars>>

----------------------------------------------------------------------------
(* Watcher.updateContainer *)

\* updateContainer, lines 166-180, and UpdateWorkloadImage: Get, change the
\* container's image, Update; the cluster may refuse either call, and with
\* the container name absent from the object read no Update is sent
Patch ==
    /\ pc = "patch"
    /\ LET c == inventory[idx]
           img == NewImage(c.image, newDigest)
       IN  /\ patchCalls' = Append(patchCalls,
                   [pos |-> idx, w |-> c.w, container |-> c.name, image |-> img])
           /\ \E accepted \in BOOLEAN :
                 IF accepted /\ HasContainer(tmpl[c.w], c.name)
                 THEN /\ tmpl' = [tmpl EXCEPT
                                    ![c.w] = updateContainerImage(@, c.name, img)]
                      /\ rolling' = [rolling EXCEPT ![c.w] = TRUE]
                      /\ elapsed' = 0
                      /\ pc' = "poll"
                      /\ UNCHANGED <<idx, failed, results, log>>
                 ELSE /\ RecordFailure(IF accepted THEN "notfound" ELSE "patchfail", 0)
                      /\ UNCHANGED <<tmpl, rolling>>
    /\ UNCHANGED <<imageID, remote, configVars, inventory, scanned, updated,
                   newDigest, cycle, published, sent, parseVars, componentVars>>

\* isRolloutComplete, seen from the status the cluster reports
RolloutComplete(w) == ~rolling[w]

\* WaitForRollout, case <-ticker.C: one status read every PollInterval
PollTick ==
    /\ pc = "poll"
    /\ elapsed + PollInterval <= RolloutTimeout
    /\ \E readOK \in BOOLEAN :
          IF ~readOK
          THEN /\ RecordFailure("pollfail", 0)
               /\ UNCHANGED updated
          ELSE IF RolloutComplete(inventory[idx].w)
          THEN \* updateContainer returns nil: updatedCount++, AddResult(true)
               /\ updated' = updated + 1
               /\ results' = AddResult(results, inventory[idx].image, TRUE, idx)
               /\ log' = [log EXCEPT ![idx].outcome = "updated"]
               /\ elapsed' = 0
               /\ Continue
               /\ UNCHANGED failed
          ELSE /\ elapsed' = elapsed + PollInterval
               /\ UNCHANGED <<pc, idx, updated, failed, results, log>>
    /\ UNCHANGED <<clusterVars, configVars, inventory, scanned, newDigest, cycle,
                   published, patchCalls, sent, parseVars, componentVars>>

\* WaitForRollout, case <-ctx.Done(): the deadline is reached before the
\* next tick, or together with it
PollTimeout ==
    /\ pc = "poll"
    /\ elapsed + PollInterval >= RolloutTimeout
    /\ RecordFailure("timeout", elapsed)
    /\ UNCHANGED <<clusterVars, configVars, inventory, scanned, updated, newDigest,
                   cycle, published, patchCalls, sent, parseVars, componentVars>>

\* a summary sent from inside the loop, with containers still to come
SessionDoneEarly ==
    /\ pc = "scan"
    /\ sent' = SendSummary(results, scanned)
    /\ pc' = "idle"
    /\ UNCHANGED <<clusterVars, configVars, inventory, idx, scanned, updated,
                   failed, results, newDigest, elapsed, cycle, published, log,
                   patchCalls, parseVars, componentVars>>

\* check, lines 150-162: the loop is over, SendSummary(scannedCount)
SessionDone ==
    /\ pc = "scan"
    /\ idx > Len(inventory)
    /\ sent' = SendSummary(results, scanned)
    /\ pc' = "idle"
    /\ UNCHANGED <<clusterVars, configVars, inventory, idx, scanned, updated,
                   failed, results, newDigest, elapsed, cycle, published, log,
                   patchCalls, parseVars, componentVars>>

----------------------------------------------------------------------------
(* The environment *)

\* The registry is read only by CheckContainer, the pod and rollout status
\* only by StartCycle and PollTick: a change is placed right before the next
\* step that can read it.

\* the registry publishes another digest under the image name the next
\* lookup asks for
Publish ==
    /\ pc = "scan"
    /\ idx <= Len(inventory)
    /\ published < MaxPublish
    /\ \E n \in Names \cap {ImageName(ParseImage(inventory[idx].image))},
          d \in PublishDigests :
          /\ remote[n] # d
          /\ remote' = [remote EXCEPT ![n] = d]
    /\ published' = published + 1
    /\ UNCHANGED <<tmpl, imageID, rolling, configVars, pc, inventory, idx, scanned,
                   updated, failed, results, newDigest, elapsed, cycle, log,
                   patchCalls, sent, parseVars, componentVars>>

\* the pods of the new revision report the digest their image is pinned to
IDAfterRollout(w, i) ==
    IF Contains(tmpl[w][i].image, "@")
    THEN Pullable(extractDigestFromImageID(tmpl[w][i].image))
    ELSE imageID[w][tmpl[w][i].name]

\* the cluster completes the rollout of a patched workload
RolloutFinishes ==
    /\ pc \in {"idle", "poll"}
    /\ \E w \in Workloads :
          /\ rolling[w]
          /\ rolling' = [rolling EXCEPT ![w] = FALSE]
          /\ imageID' = [imageID EXCEPT ![w] =
                [n \in DOMAIN imageID[w] |->
                    IF \E i \in 1..Len(tmpl[w]) : tmpl[w][i].name = n
                    THEN IDAfterRollout(w,
                            CHOOSE i \in 1..Len(tmpl[w]) : tmpl[w][i].name = n)
                    ELSE imageID[w][n]]]
    /\ UNCHANGED <<tmpl, remote, configVars, pc, inventory, idx, scanned, updated,
                   failed, results, newDigest, elapsed, cycle, published, log,
                   patchCalls, sent, parseVars, componentVars>>

Next ==
    \/ StartCycle
    \/ ListFails
    \/ CheckContainer
    \/ Patch
    \/ PollTick
    \/ PollTimeout
    \/ SessionDone
    \/ Publish
    \/ RolloutFinishes

Spec == Init /\ [][Next]_vars

----------------------------------------------------------------------------
(* ParseImage and the image built by updateContainer, on every image       *)
(* string of at most MaxImageLen tokens                                    *)

ImageAlphabet == {"app", "5000", ":", "@", "/"}

ImageStrings == UNION {[1..n -> ImageAlphabet] : n \in 1..MaxImageLen}

ProcessOff ==
    /\ tmpl = [w \in Workloads |-> <<>>]
    /\ imageID = [w \in Workloads |-> <<>>]
    /\ rolling = [w \in Workloads |-> FALSE]
    /\ remote = [n \in Names |-> DigA]
    /\ disabled = {}
    /\ enabled = FALSE
    /\ pc = "off"
    /\ inventory = <<>>
    /\ idx = 1
    /\ scanned = 0
    /\ updated = 0
    /\ failed = 0
    /\ results = <<>>
    /\ newDigest = Empty
    /\ elapsed = 0
    /\ cycle = 0
    /\ published = 0
    /\ log = <<>>
    /\ patchCalls = <<>>
    /\ sent = <<>>

InitParse ==
    /\ ProcessOff
    /\ pPhase = "input"
    /\ pImage \in ImageStrings
    /\ pDigest \in PublishDigests
    /\ pInfo = ParseImage(Empty)
    /\ pNew = Empty
    /\ ComponentsOff

\* imageInfo := registry.ParseImage(container.Image); newImage := Sprintf(...)
ParseStep ==
    /\ pPhase = "input"
    /\ pPhase' = "parsed"
    /\ pInfo' = ParseImage(pImage)
    /\ pNew' = NewImage(pImage, pDigest)
    /\ UNCHANGED <<clusterVars, configVars, pc, inventory, idx, scanned, updated,
                   failed, results, newDigest, elapsed, cycle, published, log,
                   patchCalls, sent, pImage, pDigest, componentVars>>

NextParse == ParseStep

SpecParse == InitParse /\ [][NextParse]_vars

----------------------------------------------------------------------------
(* The scenario of one container declared with image nginx, running        *)
(* sha256:aaa, while the registry publishes sha256:bbb                     *)

InitScenario ==
    /\ tmpl = [w \in Workloads |-> <<[name |-> "nginx", image |-> ImgNginx]>>]
    /\ imageID = [w \in Workloads |->
                    [nginx |-> Pullable(ShortA), redis |-> Pullable(ShortA)]]
    /\ rolling = [w \in Workloads |-> FALSE]
    /\ remote = [n \in Names |-> ShortB]
    /\ disabled = {}
    /\ enabled = TRUE
    /\ ProcessInit
    /\ ParseOff
    /\ ComponentsOff

SpecScenario == InitScenario /\ [][Next]_vars

----------------------------------------------------------------------------
(* A container is taken out of the workload while the watcher runs *)

InitRemoved ==
    /\ tmpl = [w \in Workloads |->
                 <<[name |-> "nginx", image |-> ImgNginx],
                   [name |-> "redis", image |-> ImgRedis]>>]
    /\ \E id1 \in {Pullable(DigA), Pullable(DigB)} :
          imageID = [w \in Workloads |-> [nginx |-> id1, redis |-> Pullable(DigA)]]
    /\ rolling = [w \in Workloads |-> FALSE]
    /\ remote = [n \in Names |-> DigA]
    /\ disabled = {}
    /\ enabled \in BOOLEAN
    /\ ProcessInit
    /\ ParseOff
    /\ ComponentsOff

\* somebody edits the workload and drops a container from its pod template;
\* the template is read by ListWorkloads and by UpdateWorkloadImage
ContainerRemoved ==
    /\ pc \in {"idle", "patch"}
    /\ \E w \in Workloads :
          \E k \in 1..Len(tmpl[w]) :
             tmpl' = [tmpl EXCEPT
                        ![w] = SelectSeq(@, LAMBDA c : c.name # tmpl[w][k].name)]
    /\ UNCHANGED <<imageID, rolling, remote, configVars, pc, inventory, idx,
                   scanned, updated, failed, results, newDigest, elapsed, cycle,
                   published, log, patchCalls, sent, parseVars, componentVars>>

NextRemoved ==
    \/ Next
    \/ ContainerRemoved

SpecRemoved == InitRemoved /\ [][NextRemoved]_vars

----------------------------------------------------------------------------
(* package watcher: matching an image registry with a secret's registry    *)

\* strings.TrimPrefix
TrimPrefix(s, prefix) == IF s # <<>> /\ Head(s) = prefix THEN Tail(s) ELSE s

\* strings.TrimSuffix
TrimSuffix(s, suffix) ==
    IF s # <<>> /\ s[Len(s)] = suffix THEN SubSeq(s, 1, Len(s) - 1) ELSE s

\* normalizeRegistry
normalizeRegistry(registry) ==
    ToLower(TrimSuffix(TrimPrefix(TrimPrefix(registry, "https://"), "http://"), "/"))

dockerHubRegistries ==
    {<<"index.docker.io">>, <<"docker.io">>, <<"registry-1.docker.io">>,
     <<"registry.hub.docker.com">>}

\* a match by textual equality only
matchesRegistryExact(imageRegistry, secretRegistry) ==
    normalizeRegistry(imageRegistry) = normalizeRegistry(secretRegistry)

\* matchesRegistry
matchesRegistry(imageRegistry, secretRegistry) ==
    \/ normalizeRegistry(imageRegistry) = normalizeRegistry(secretRegistry)
    \/ /\ normalizeRegistry(imageRegistry) \in dockerHubRegistries
       /\ normalizeRegistry(secretRegistry) \in dockerHubRegistries

\* registry hosts, and the ways one of them is written in an image name or
\* as a key of a docker config
RegistryHosts ==
    {"index.docker.io", "docker.io", "registry-1.docker.io",
     "registry.hub.docker.com", "ghcr.io", "quay.io"}

UpperTok(t) ==
    CASE t = "index.docker.io" -> "INDEX.DOCKER.IO"
      [] t = "docker.io" -> "DOCKER.IO"
      [] t = "registry-1.docker.io" -> "REGISTRY-1.DOCKER.IO"
      [] t = "registry.hub.docker.com" -> "REGISTRY.HUB.DOCKER.COM"
      [] t = "ghcr.io" -> "GHCR.IO"
      [] t = "quay.io" -> "QUAY.IO"
      [] t = "v1" -> "V1"
      [] OTHER -> t

Writings ==
    [host : RegistryHosts, scheme : {"", "https://", "http://"},
     path : BOOLEAN, slash : BOOLEAN, upper : BOOLEAN]

\* the registry string: [scheme]host[/v1][/]
Written(r) ==
    (IF r.scheme = "" THEN <<>> ELSE <<r.scheme>>)
        \o <<IF r.upper THEN UpperTok(r.host) ELSE r.host>>
        \o (IF r.path THEN <<"/", IF r.upper THEN UpperTok("v1") ELSE "v1">> ELSE <<>>)
        \o (IF r.slash THEN <<"/">> ELSE <<>>)

InitMatch ==
    /\ ProcessOff
    /\ ParseOff
    /\ mPhase = "input"
    /\ mImage \in Writings
    /\ mSecret \in Writings
    /\ mMatch = FALSE
    /\ CredOff
    /\ CompleteOff
    /\ WaitOff
    /\ CleanupOff
    /\ MoreOff

\* getCredentialsForImage, line 223: matchesRegistry(imageRegistry, auth.Registry)
MatchStep ==
    /\ mPhase = "input"
    /\ mPhase' = "matched"
    /\ mMatch' = matchesRegistry(Written(mImage), Written(mSecret))
    /\ UNCHANGED <<clusterVars, configVars, pc, inventory, idx, scanned, updated,
                   failed, results, newDigest, elapsed, cycle, published, log,
                   patchCalls, sent, parseVars, mImage, mSecret, credVars,
                   completeVars, waitVars, cleanupVars, moreVars>>

NextMatch == MatchStep

SpecMatch == InitMatch /\ [][NextMatch]_vars

----------------------------------------------------------------------------
(* Registry credentials: Client.GetImagePullSecret,                        *)
(* Watcher.getCredentialsForImage and the authentication of                *)
(* ImageChecker.getRemoteDigest                                            *)

MaxSecrets == 2
MaxAuths == 2

\* base64.StdEncoding.DecodeString
DecodeString(auth) ==
    CASE auth = "" -> [err |-> FALSE, decoded |-> Empty]
      [] auth = "dTI6cDI=" -> [err |-> FALSE, decoded |-> <<"u2", ":", "p2">>]
      [] OTHER -> [err |-> TRUE, decoded |-> Empty]

\* strings.SplitN(s, sep, 2)
SplitN2(s, sep) ==
    IF Index(s, sep) = 0
    THEN <<s>>
    ELSE <<SubSeq(s, 1, Index(s, sep) - 1), SubSeq(s, Index(s, sep) + 1, Len(s))>>

\* the combined field decoded whenever it is present
AuthEntryAuthFirst(registry, authConfig) ==
    LET dec == DecodeString(authConfig.Auth)
        parts == SplitN2(dec.decoded, ":")
    IN  IF authConfig.Auth # "" /\ dec.err
        THEN <<>>
        ELSE <<[Registry |-> registry,
                Username |-> IF authConfig.Auth # "" /\ Len(parts) = 2
                             THEN parts[1] ELSE authConfig.Username,
                Password |-> IF authConfig.Auth # "" /\ Len(parts) = 2
                             THEN parts[2] ELSE authConfig.Password]>>

\* GetImagePullSecret, body of the loop over dockerConfig.Auths: the
\* RegistryAuth appended for one entry, none when its auth does not decode
AuthEntry(registry, authConfig) ==
    LET decode == /\ authConfig.Auth # ""
                  /\ (authConfig.Username = Empty \/ authConfig.Password = Empty)
        dec == DecodeString(authConfig.Auth)
        parts == SplitN2(dec.decoded, ":")
    IN  IF decode /\ dec.err
        THEN <<>>
        ELSE <<[Registry |-> registry,
                Username |-> IF decode /\ Len(parts) = 2
                             THEN parts[1] ELSE authConfig.Username,
                Password |-> IF decode /\ Len(parts) = 2
                             THEN parts[2] ELSE authConfig.Password]>>

RECURSIVE ExtractAuths(_)
ExtractAuths(entries) ==
    IF entries = <<>>
    THEN <<>>
    ELSE AuthEntry(Head(entries).registry, Head(entries).config)
            \o ExtractAuths(Tail(entries))

\* a secret read without looking at what went wrong
GetImagePullSecretLenient(secret) ==
    [err |-> FALSE, auths |-> ExtractAuths(secret.entries)]

\* GetImagePullSecret: secret.fault is what is wrong with the secret,
\* secret.entries are dockerConfig.Auths in the order the map is ranged over
GetImagePullSecret(secret) ==
    IF secret.fault # "none"
    THEN [err |-> TRUE, auths |-> <<>>]
    ELSE [err |-> FALSE, auths |-> ExtractAuths(secret.entries)]

\* strings.Contains(parts[0], ".")
DottedWords == RegistryHosts \cup {"reg.local"}

\* extractRegistry
extractRegistry(repository) ==
    IF ~Contains(repository, "/")
    THEN <<"index.docker.io">>
    ELSE LET first == SplitN2(repository, "/")[1]
         IN  IF (\E i \in 1..Len(first) : first[i] \in DottedWords)
                    \/ Contains(first, ":")
             THEN first
             ELSE <<"index.docker.io">>

\* getCredentialsForImage, inner loop: the first auth that matches
RECURSIVE FirstMatch(_, _)
FirstMatch(auths, imageRegistry) ==
    IF auths = <<>>
    THEN <<>>
    ELSE IF matchesRegistry(imageRegistry, Head(auths).Registry)
         THEN <<Head(auths)>>
         ELSE FirstMatch(Tail(auths), imageRegistry)

\* getCredentialsForImage, outer loop over secretNames
RECURSIVE TrySecrets(_, _)
TrySecrets(secrets, imageRegistry) ==
    IF secrets = <<>>
    THEN <<>>
    ELSE LET got == GetImagePullSecret(Head(secrets))
             found == IF got.err THEN <<>> ELSE FirstMatch(got.auths, imageRegistry)
         IN  IF found # <<>>
             THEN found
             ELSE TrySecrets(Tail(secrets), imageRegistry)

Reverse(s) == [i \in 1..Len(s) |-> s[Len(s) + 1 - i]]

\* the secrets tried from the last one to the first
getCredentialsForImageReversed(secrets, image) ==
    TrySecrets(Reverse(secrets), extractRegistry(ParseImage(image).Repository))

\* getCredentialsForImage
getCredentialsForImage(secrets, image) ==
    TrySecrets(secrets, extractRegistry(ParseImage(image).Repository))

\* the secrets getCredentialsForImage read before it returned, parsed
RECURSIVE SecretsRead(_, _)
SecretsRead(secrets, imageRegistry) ==
    IF secrets = <<>>
    THEN <<>>
    ELSE LET got == GetImagePullSecret(Head(secrets))
         IN  IF ~got.err /\ FirstMatch(got.auths, imageRegistry) # <<>>
             THEN <<got>>
             ELSE <<got>> \o SecretsRead(Tail(secrets), imageRegistry)

\* getRemoteDigest, lines 1135-1146: basic authentication, or the default
\* keychain (anonymous when it holds nothing)
AuthMode(credentials) ==
    IF credentials # <<>> /\ credentials[1].Username # Empty
    THEN "basic"
    ELSE "keychain"

ImgGhcr == <<"ghcr.io", "/", "app">>

B64User2 == "dTI6cDI="
B64Broken == "%%%"

AuthGhcr ==
    [registry |-> <<"ghcr.io">>,
     config |-> [Username |-> <<"u1">>, Password |-> <<"p1">>, Auth |-> ""]]

\* entries of a docker config
AuthPool ==
    {AuthGhcr,
     [registry |-> <<"ghcr.io">>,
      config |-> [Username |-> Empty, Password |-> Empty, Auth |-> B64Broken]],
     [registry |-> <<"https://", "ghcr.io">>,
      config |-> [Username |-> Empty, Password |-> Empty, Auth |-> B64User2]],
     [registry |-> <<"https://", "ghcr.io">>,
      config |-> [Username |-> <<"u1">>, Password |-> Empty, Auth |-> B64User2]],
     [registry |-> <<"docker.io">>,
      config |-> [Username |-> <<"u3">>, Password |-> <<"p3">>, Auth |-> B64User2]]}

\* the keys of a JSON object are distinct
AuthLists ==
    {l \in UNION {[1..n -> AuthPool] : n \in 0..MaxAuths} :
        \A i, j \in 1..Len(l) : i # j => l[i].registry # l[j].registry}

SecretFaults == {"unreadable", "wrongtype", "nokey", "badjson"}

SecretPool ==
    {[fault |-> "none", entries |-> l] : l \in AuthLists}
        \cup {[fault |-> f, entries |-> <<AuthGhcr>>] : f \in SecretFaults}

InitCred ==
    /\ ProcessOff
    /\ ParseOff
    /\ MatchOff
    /\ cPhase = "input"
    /\ cImage \in {ImgNginx, ImgGhcr, ImgPort}
    /\ cSecrets \in UNION {[1..n -> SecretPool] : n \in 0..MaxSecrets}
    /\ cParsed = <<>>
    /\ cCred = <<>>
    /\ cAuth = "none"
    /\ cOutcome = "none"
    /\ CompleteOff
    /\ WaitOff
    /\ CleanupOff
    /\ MoreOff

\* check, lines 94-110: credentials for the container's image, then
\* CheckForUpdate with them
LookupWithCredentials ==
    /\ cPhase = "input"
    /\ cPhase' = "requested"
    /\ cCred' = IF Len(cSecrets) > 0
                THEN getCredentialsForImage(cSecrets, cImage)
                ELSE <<>>
    /\ cParsed' = SecretsRead(cSecrets, extractRegistry(ParseImage(cImage).Repository))
    /\ cAuth' = AuthMode(cCred')
    /\ \E ok \in BOOLEAN : cOutcome' = IF ok THEN "resolved" ELSE "digestfail"
    /\ UNCHANGED <<clusterVars, configVars, pc, inventory, idx, scanned, updated,
                   failed, results, newDigest, elapsed, cycle, published, log,
                   patchCalls, sent, parseVars, matchVars, cImage, cSecrets,
                   completeVars, waitVars, cleanupVars, moreVars>>

NextCred == LookupWithCredentials

SpecCred == InitCred /\ [][NextCred]_vars

----------------------------------------------------------------------------
(* package k8s: isRolloutComplete and the completion check of each kind    *)

MaxGeneration == 2
MaxReplicas == 2

\* replicas := int32(1); if Spec.Replicas != nil { replicas = *Spec.Replicas }
\* Spec.Replicas is <<>> for nil
DesiredReplicas(spec) == IF spec.Replicas = <<>> THEN 1 ELSE spec.Replicas[1]

\* a completion check that looks at the available replicas only
isDeploymentRolloutCompleteAvailable(deployment) ==
    deployment.Status.AvailableReplicas = DesiredReplicas(deployment.Spec)

\* isDeploymentRolloutComplete
isDeploymentRolloutComplete(deployment) ==
    /\ deployment.Generation <= deployment.Status.ObservedGeneration
    /\ deployment.Status.UpdatedReplicas = DesiredReplicas(deployment.Spec)
    /\ deployment.Status.Replicas = DesiredReplicas(deployment.Spec)
    /\ deployment.Status.AvailableReplicas = DesiredReplicas(deployment.Spec)

\* a completion check that does not wait for the pods to be available
isDaemonSetRolloutCompleteReady(daemonset) ==
    /\ daemonset.Generation <= daemonset.Status.ObservedGeneration
    /\ daemonset.Status.UpdatedNumberScheduled = daemonset.Status.DesiredNumberScheduled
    /\ daemonset.Status.NumberReady = daemonset.Status.DesiredNumberScheduled

\* isDaemonSetRolloutComplete
isDaemonSetRolloutComplete(daemonset) ==
    /\ daemonset.Generation <= daemonset.Status.ObservedGeneration
    /\ daemonset.Status.UpdatedNumberScheduled = daemonset.Status.DesiredNumberScheduled
    /\ daemonset.Status.NumberReady = daemonset.Status.DesiredNumberScheduled
    /\ daemonset.Status.NumberAvailable = daemonset.Status.DesiredNumberScheduled

\* isStatefulSetRolloutComplete
isStatefulSetRolloutComplete(statefulset) ==
    /\ statefulset.Generation <= statefulset.Status.ObservedGeneration
    /\ statefulset.Status.UpdatedReplicas = DesiredReplicas(statefulset.Spec)
    /\ statefulset.Status.Replicas = DesiredReplicas(statefulset.Spec)
    /\ statefulset.Status.ReadyReplicas = DesiredReplicas(statefulset.Spec)

\* isRolloutComplete, for an object that was read without error
isRolloutComplete(workloadType, object) ==
    CASE workloadType = "Deployment" -> isDeploymentRolloutComplete(object)
      [] workloadType = "DaemonSet" -> isDaemonSetRolloutComplete(object)
      [] workloadType = "StatefulSet" -> isStatefulSetRolloutComplete(object)

Generations == 1..MaxGeneration
Counts == 0..MaxReplicas

\* appsv1.Deployment and appsv1.StatefulSet, the fields the checks read
ScaledObjects ==
    [Generation : Generations,
     Spec : [Replicas : {<<>>} \cup {<<n>> : n \in Counts}],
     Status : [ObservedGeneration : {0} \cup Generations,
               UpdatedReplicas : Counts,
               Replicas : Counts,
               ReadyReplicas : Counts,
               AvailableReplicas : Counts]]

\* appsv1.DaemonSet
DaemonObjects ==
    [Generation : Generations,
     Status : [ObservedGeneration : {0} \cup Generations,
               DesiredNumberScheduled : Counts,
               UpdatedNumberScheduled : Counts,
               NumberReady : Counts,
               NumberAvailable : Counts]]

InitComplete ==
    /\ ProcessOff
    /\ ParseOff
    /\ MatchOff
    /\ CredOff
    /\ rPhase = "input"
    /\ \/ rKind \in {"Deployment", "StatefulSet"} /\ rObj \in ScaledObjects
       \/ rKind = "DaemonSet" /\ rObj \in DaemonObjects
    /\ rComplete = FALSE
    /\ WaitOff
    /\ CleanupOff
    /\ MoreOff

\* WaitForRollout, line 364: complete, err := c.isRolloutComplete(...)
CompleteStep ==
    /\ rPhase = "input"
    /\ rPhase' = "checked"
    /\ rComplete' = isRolloutComplete(rKind, rObj)
    /\ UNCHANGED <<clusterVars, configVars, pc, inventory, idx, scanned, updated,
                   failed, results, newDigest, elapsed, cycle, published, log,
                   patchCalls, sent, parseVars, matchVars, credVars, rKind, rObj,
                   waitVars, cleanupVars, moreVars>>

NextComplete == CompleteStep

SpecComplete == InitComplete /\ [][NextComplete]_vars

----------------------------------------------------------------------------
(* Client.WaitForRollout, one call for a Deployment                        *)

\* the Deployment while its new pods come up, and once they are all there
DeploymentRolling ==
    [Generation |-> 2,
     Spec |-> [Replicas |-> <<1>>],
     Status |-> [ObservedGeneration |-> 2, UpdatedReplicas |-> 1, Replicas |-> 2,
                 ReadyReplicas |-> 1, AvailableReplicas |-> 1]]

DeploymentRolledOut ==
    [Generation |-> 2,
     Spec |-> [Replicas |-> <<1>>],
     Status |-> [ObservedGeneration |-> 2, UpdatedReplicas |-> 1, Replicas |-> 1,
                 ReadyReplicas |-> 1, AvailableReplicas |-> 1]]

DeploymentStates == {DeploymentRolling, DeploymentRolledOut}

restVars == <<clusterVars, configVars, pc, inventory, idx, scanned, updated,
              failed, results, newDigest, elapsed, cycle, published, log,
              patchCalls, sent, parseVars, matchVars, credVars, completeVars,
              cleanupVars, moreVars>>

InitWait ==
    /\ ProcessOff
    /\ ParseOff
    /\ MatchOff
    /\ CredOff
    /\ CompleteOff
    /\ wPhase = "waiting"
    /\ wObj \in DeploymentStates
    /\ wElapsed = 0
    /\ wCancelled = FALSE
    /\ wResult = "none"
    /\ CleanupOff
    /\ MoreOff

\* case <-ticker.C: the status is read; a read with a cancelled context fails
WaitTick ==
    /\ wPhase = "waiting"
    /\ wElapsed + PollInterval <= RolloutTimeout
    /\ \E readOK \in (IF wCancelled THEN {FALSE} ELSE BOOLEAN) :
          IF ~readOK
          THEN /\ wPhase' = "returned"
               /\ wResult' = "error"
               /\ wElapsed' = wElapsed + PollInterval
          ELSE IF isRolloutComplete("Deployment", wObj)
          THEN /\ wPhase' = "returned"
               /\ wResult' = "nil"
               /\ wElapsed' = wElapsed + PollInterval
          ELSE /\ wElapsed' = wElapsed + PollInterval
               /\ UNCHANGED <<wPhase, wResult>>
    /\ UNCHANGED <<restVars, wObj, wCancelled>>

\* a wait on the parent context alone, without the timeout
WaitDoneParentOnly ==
    /\ wPhase = "waiting"
    /\ wCancelled
    /\ wPhase' = "returned"
    /\ wResult' = "timeout"
    /\ UNCHANGED <<restVars, wObj, wElapsed, wCancelled>>

\* case <-ctx.Done(): the context made by context.WithTimeout(ctx, timeout)
\* is done at the deadline or when the parent context is cancelled
WaitDone ==
    /\ wPhase = "waiting"
    /\ wCancelled \/ wElapsed + PollInterval >= RolloutTimeout
    /\ wPhase' = "returned"
    /\ wResult' = "timeout"
    /\ UNCHANGED <<restVars, wObj, wElapsed, wCancelled>>

\* the cluster: the status of the Deployment changes
StatusChanges ==
    /\ wPhase = "waiting"
    /\ wObj' \in DeploymentStates \ {wObj}
    /\ UNCHANGED <<restVars, wPhase, wElapsed, wCancelled, wResult>>

\* main: a signal cancels the context given to Run
ParentCancelled ==
    /\ wPhase = "waiting"
    /\ ~wCancelled
    /\ wCancelled' = TRUE
    /\ UNCHANGED <<restVars, wPhase, wObj, wElapsed, wResult>>

NextWait ==
    \/ WaitTick
    \/ WaitDone
    \/ StatusChanges
    \/ ParentCancelled

SpecWait == InitWait /\ [][NextWait]_vars

\* the ticker keeps firing and the select takes a case that stays ready
SpecWaitFair == SpecWait /\ WF_vars(WaitTick) /\ WF_vars(WaitDone)

----------------------------------------------------------------------------
(* The end of updateContainer: Client.CleanupOldResources after a          *)
(* completed rollout of workload "web", and what check records             *)

MaxRevisions == 3

\* OwnerReferences with one owner
OwnedBy(kind, name) == <<[Kind |-> kind, Name |-> name]>>

\* getOwnerName
getOwnerName(ownerRefs) == IF Len(ownerRefs) > 0 THEN ownerRefs[1].Name ELSE ""

\* cleanupOldReplicaSets, the loop over replicaSets.Items: every ReplicaSet
\* with zero replicas is deleted, and the first failed delete ends the loop
RECURSIVE DeleteScaledDown(_, _)
DeleteScaledDown(items, failing) ==
    IF items = <<>>
    THEN [err |-> "none", deleted |-> {}, refused |-> {}]
    ELSE IF Head(items).Spec.Replicas = <<0>>
         THEN IF Head(items) \in failing
              THEN [err |-> "delete", deleted |-> {}, refused |-> {Head(items)}]
              ELSE [err |-> DeleteScaledDown(Tail(items), failing).err,
                    deleted |-> {Head(items)}
                                  \cup DeleteScaledDown(Tail(items), failing).deleted,
                    refused |-> DeleteScaledDown(Tail(items), failing).refused]
         ELSE DeleteScaledDown(Tail(items), failing)

\* cleanupOldReplicaSets: listed is the result of the List with the
\* Deployment's label selector
cleanupOldReplicaSets(listed, getOK, listOK, failing) ==
    IF ~getOK THEN [err |-> "get", deleted |-> {}, refused |-> {}]
    ELSE IF ~listOK THEN [err |-> "list", deleted |-> {}, refused |-> {}]
    ELSE DeleteScaledDown(listed, failing)

\* cleanupOldControllerRevisions: listed is every ControllerRevision of the
\* namespace; a failed delete is logged
cleanupOldControllerRevisions(listed, name, listOK, failing) ==
    LET workloadRevisions ==
            SelectSeq(listed, LAMBDA rev : getOwnerName(rev.OwnerReferences) = name)
    IN  IF ~listOK THEN [err |-> "list", deleted |-> {}, refused |-> {}]
        ELSE IF Len(workloadRevisions) <= 2
        THEN [err |-> "none", deleted |-> {}, refused |-> {}]
        ELSE [err |-> "none",
              deleted |-> {workloadRevisions[i] : i \in 3..Len(workloadRevisions)}
                            \ failing,
              refused |-> {workloadRevisions[i] : i \in 3..Len(workloadRevisions)}
                            \cap failing]

\* CleanupOldResources
CleanupOldResources(workloadType, listed, name, getOK, listOK, failing) ==
    CASE workloadType = "Deployment" ->
            cleanupOldReplicaSets(listed, getOK, listOK, failing)
      [] workloadType \in {"DaemonSet", "StatefulSet"} ->
            cleanupOldControllerRevisions(listed, name, listOK, failing)

\* an updateContainer that returns the error of the cleanup
updateContainerReturnEscalated(cleanupErr) ==
    IF cleanupErr \in {"none", "notrun"} THEN "nil" ELSE cleanupErr

\* updateContainer, lines 192-204: the error of the cleanup is logged as a
\* warning and nil is returned
updateContainerReturn(cleanupErr) == "nil"

OtherKind(kind) == IF kind = "DaemonSet" THEN "StatefulSet" ELSE "DaemonSet"

\* ControllerRevisions of the namespace: those of "web", one of the workload
\* of the other kind that is also named "web", one of workload "db"
RevisionPool(kind) ==
    {[OwnerReferences |-> OwnedBy(kind, "web"), Revision |-> r] : r \in 1..MaxRevisions}
        \cup {[OwnerReferences |-> OwnedBy(OtherKind(kind), "web"), Revision |-> 1],
              [OwnerReferences |-> OwnedBy(kind, "db"), Revision |-> 1]}

\* ReplicaSets with the labels the selector of Deployment "web" asks for:
\* its own, and those of Deployment "web-api" whose pods carry them too
ReplicaSetPool ==
    {[OwnerReferences |-> OwnedBy("Deployment", n), Spec |-> [Replicas |-> r]] :
        n \in {"web", "web-api"}, r \in {<<0>>, <<1>>}}

\* the lists a List call can return: any objects, in any order
ListsOf(pool) ==
    {l \in UNION {[1..n -> pool] : n \in 0..Cardinality(pool)} :
        \A i, j \in 1..Len(l) : i # j => l[i] # l[j]}

Range(l) == {l[i] : i \in 1..Len(l)}

InitCleanup ==
    /\ ProcessOff
    /\ ParseOff
    /\ MatchOff
    /\ CredOff
    /\ CompleteOff
    /\ WaitOff
    /\ MoreOff
    /\ kPhase = "rolled"
    /\ kCleanup \in BOOLEAN
    /\ \/ kKind = "Deployment" /\ kListed \in ListsOf(ReplicaSetPool)
       \/ kKind = "DaemonSet" /\ kListed \in ListsOf(RevisionPool("DaemonSet"))
       \/ kKind = "StatefulSet" /\ kListed \in ListsOf(RevisionPool("StatefulSet"))
    /\ kDeleted = {}
    /\ kRefused = {}
    /\ kCleanupErr = "none"
    /\ kReturn = "none"
    /\ kUpdated = 0
    /\ kOutcome = "none"

restOfCleanup ==
    <<clusterVars, configVars, pc, inventory, idx, scanned, updated, failed,
      results, newDigest, elapsed, cycle, published, log, patchCalls, sent,
      parseVars, matchVars, credVars, completeVars, waitVars, moreVars>>

\* updateContainer after WaitForRollout returned nil, and the lines of check
\* that follow the call
CleanupAfterRollout ==
    /\ kPhase = "rolled"
    /\ kPhase' = "done"
    /\ \E getOK, listOK \in BOOLEAN, failing \in SUBSET Range(kListed) :
          LET cleaned == CleanupOldResources(kKind, kListed, "web", getOK, listOK, failing)
          IN  /\ kDeleted' = IF kCleanup THEN cleaned.deleted ELSE {}
              /\ kRefused' = IF kCleanup THEN cleaned.refused ELSE {}
              /\ kCleanupErr' = IF kCleanup THEN cleaned.err ELSE "notrun"
    /\ kReturn' = updateContainerReturn(kCleanupErr')
    /\ IF kReturn' = "nil"
       THEN kUpdated' = kUpdated + 1 /\ kOutcome' = "success"
       ELSE kUpdated' = kUpdated /\ kOutcome' = "failure"
    /\ UNCHANGED <<restOfCleanup, kKind, kCleanup, kListed>>

NextCleanup == CleanupAfterRollout

SpecCleanup == InitCleanup /\ [][NextCleanup]_vars

----------------------------------------------------------------------------
(* The process: main with its signal goroutine, and Watcher.Run.  Run makes  *)
(* one check and returns (the watcher started by a CronJob, and RunOnce),    *)
(* or waits for its first run and then checks at every tick.  A check is     *)
(* entered and left here, by a return or by the end of the process; what it *)
(* does with the containers is the subject of the cycle above.              *)

MaxChecks == 2

restOfMain ==
    <<clusterVars, configVars, pc, inventory, idx, scanned, updated, failed,
      results, newDigest, elapsed, cycle, published, log, patchCalls, sent,
      parseVars, matchVars, credVars, completeVars, waitVars, cleanupVars,
      listVars, tagVars, updateVars, imageVars>>

\* main up to the call of w.Run: the context, sigCh, signal.Notify, the
\* goroutine started
InitMain ==
    /\ ProcessOff
    /\ ParseOff
    /\ MatchOff
    /\ CredOff
    /\ CompleteOff
    /\ WaitOff
    /\ CleanupOff
    /\ ListOff
    /\ TagOff
    /\ UpdateOff
    /\ ImageOff
    /\ mainPc = "run"
    /\ runOnce \in BOOLEAN
    /\ runPc = IF runOnce THEN "check" ELSE "first"
    /\ runErr = "none"
    /\ handlerPc = "select"
    /\ sigCh = 0
    /\ ctxDone = FALSE
    /\ notifying = TRUE
    /\ checks = IF runOnce THEN 1 ELSE 0
    /\ checkRes = NoCheck
    /\ logged = 0

\* the process runs
Alive == mainPc \in {"run", "waitdone"}

\* SIGINT or SIGTERM is sent to the process: the runtime puts it in sigCh
\* when there is room, and drops it otherwise
Signal ==
    /\ Alive
    /\ notifying
    /\ sigCh = 0
    /\ sigCh' = 1
    /\ UNCHANGED <<restOfMain, mainPc, runPc, runErr, handlerPc, ctxDone,
                   notifying, runOnce, checks, checkRes, logged>>

\* goroutine, case sig := <-sigCh: log, cancel()
HandlerSignal ==
    /\ Alive
    /\ handlerPc = "select"
    /\ sigCh = 1
    /\ sigCh' = 0
    /\ ctxDone' = TRUE
    /\ handlerPc' = "signalled"
    /\ UNCHANGED <<restOfMain, mainPc, runPc, runErr, notifying, runOnce,
                   checks, checkRes, logged>>

\* goroutine, case <-ctx.Done(), then close(done)
HandlerCtxDone ==
    /\ Alive
    /\ handlerPc = "select"
    /\ ctxDone
    /\ handlerPc' = "closedCtx"
    /\ UNCHANGED <<restOfMain, mainPc, runPc, runErr, sigCh, ctxDone, notifying,
                   runOnce, checks, checkRes, logged>>

\* goroutine, close(done) after cancel()
HandlerClose ==
    /\ Alive
    /\ handlerPc = "signalled"
    /\ handlerPc' = "closedSig"
    /\ UNCHANGED <<restOfMain, mainPc, runPc, runErr, sigCh, ctxDone, notifying,
                   runOnce, checks, checkRes, logged>>

\* Run, "Wait until first run": time.After fires
RunFirstDue ==
    /\ runPc = "first"
    /\ runPc' = "check"
    /\ checks' = checks + 1
    /\ UNCHANGED <<restOfMain, mainPc, runErr, handlerPc, sigCh, ctxDone,
                   notifying, runOnce, checkRes, logged>>

\* Run, case <-ctx.Done(): return ctx.Err(), while waiting for the first
\* run or for a tick
RunDone ==
    /\ runPc \in {"first", "ticker"}
    /\ ctxDone
    /\ runPc' = "returned"
    /\ runErr' = "canceled"
    /\ UNCHANGED <<restOfMain, mainPc, handlerPc, sigCh, ctxDone, notifying,
                   runOnce, checks, checkRes, logged>>

\* check: ListWorkloads fails and check returns the error before its loop
CheckListFails ==
    /\ runPc = "check"
    /\ checkRes' = [err |-> TRUE, patches |-> 0, sent |-> 0]
    /\ runPc' = "checked"
    /\ UNCHANGED <<restOfMain, mainPc, runErr, handlerPc, sigCh, ctxDone,
                   notifying, runOnce, checks, logged>>

\* check: ListWorkloads succeeds, the loop runs with some patch calls, the
\* summary is sent or not, check returns nil
CheckCompletes ==
    /\ runPc = "check"
    /\ \E p \in 0..1, m \in 0..1 :
          checkRes' = [err |-> FALSE, patches |-> p, sent |-> m]
    /\ runPc' = "checked"
    /\ UNCHANGED <<restOfMain, mainPc, runErr, handlerPc, sigCh, ctxDone,
                   notifying, runOnce, checks, logged>>

\* check: inside the loop getRemoteDigest calls logger.Fatalf on an image
\* name that does not parse, or newDigest[:12] panics: the process ends
CheckExits ==
    /\ runPc = "check"
    /\ runPc' = "exited"
    /\ mainPc' = "exited"
    /\ UNCHANGED <<restOfMain, runErr, handlerPc, sigCh, ctxDone, notifying,
                   runOnce, checks, checkRes, logged>>

\* an error of check handed on to the caller of Run
RunAfterCheckPropagates ==
    /\ runPc = "checked"
    /\ logged' = logged
    /\ IF checkRes.err \/ runOnce
       THEN /\ runPc' = "returned"
            /\ runErr' = IF checkRes.err THEN "error" ELSE "nil"
       ELSE /\ runPc' = "ticker"
            /\ runErr' = runErr
    /\ UNCHANGED <<restOfMain, mainPc, handlerPc, sigCh, ctxDone, notifying,
                   runOnce, checks, checkRes>>

\* Run after check: the error is logged; return nil, or go on to the ticker
RunAfterCheck ==
    /\ runPc = "checked"
    /\ logged' = IF checkRes.err THEN logged + 1 ELSE logged
    /\ IF runOnce
       THEN /\ runPc' = "returned"
            /\ runErr' = "nil"
       ELSE /\ runPc' = "ticker"
            /\ runErr' = runErr
    /\ UNCHANGED <<restOfMain, mainPc, handlerPc, sigCh, ctxDone, notifying,
                   runOnce, checks, checkRes>>

\* Run, case <-ticker.C: the next check
RunTick ==
    /\ runPc = "ticker"
    /\ checks < MaxChecks
    /\ runPc' = "check"
    /\ checks' = checks + 1
    /\ UNCHANGED <<restOfMain, mainPc, runErr, handlerPc, sigCh, ctxDone,
                   notifying, runOnce, checkRes, logged>>

\* main, lines 60-68: Run returned; cancel(), signal.Stop(sigCh), and
\* logger.Fatalf unless the error is nil or context.Canceled
MainAfterRun ==
    /\ mainPc = "run"
    /\ runPc = "returned"
    /\ ctxDone' = TRUE
    /\ notifying' = FALSE
    /\ mainPc' = IF runErr \notin {"nil", "canceled"} THEN "fatal" ELSE "waitdone"
    /\ UNCHANGED <<restOfMain, runPc, runErr, handlerPc, sigCh, runOnce, checks,
                   checkRes, logged>>

\* main, <-done and the last log line
MainStopped ==
    /\ mainPc = "waitdone"
    /\ handlerPc \in {"closedSig", "closedCtx"}
    /\ mainPc' = "stopped"
    /\ UNCHANGED <<restOfMain, runPc, runErr, handlerPc, sigCh, ctxDone,
                   notifying, runOnce, checks, checkRes, logged>>

NextMain ==
    \/ Signal
    \/ HandlerSignal
    \/ HandlerCtxDone
    \/ HandlerClose
    \/ RunFirstDue
    \/ RunDone
    \/ CheckListFails
    \/ CheckCompletes
    \/ CheckExits
    \/ RunAfterCheck
    \/ RunTick
    \/ MainAfterRun
    \/ MainStopped

SpecMain == InitMain /\ [][NextMain]_vars

\* main, the goroutine and Run are scheduled again and again; a select with
\* several ready cases takes each of them sooner or later; a check ends
SpecMainFair ==
    /\ SpecMain
    /\ WF_vars(HandlerSignal)
    /\ WF_vars(HandlerCtxDone)
    /\ WF_vars(HandlerClose)
    /\ SF_vars(RunDone)
    /\ WF_vars(CheckListFails \/ CheckCompletes \/ CheckExits)
    /\ WF_vars(RunAfterCheck)
    /\ WF_vars(MainAfterRun)
    /\ WF_vars(MainStopped)

----------------------------------------------------------------------------
(* The inventory reader: Client.ListWorkloads lists the Deployments, the   *)
(* DaemonSets and the StatefulSets of every namespace, skips the ones      *)
(* without available replicas, and hands each other one to                 *)
(* processWorkload, which drops the workloads of an excluded namespace,    *)
(* keeps the containers whose imagePullPolicy is Always, and fills their   *)
(* running digests from a pod matched by the workload's label selector.    *)

MaxPods == 2

WorkloadTypes == <<"Deployment", "DaemonSet", "StatefulSet">>

Namespaces == {"default", "kube-system"}

\* the containers of a pod template
AppContainer ==
    [Name |-> "app", Image |-> ImgNginx, ImagePullPolicy |-> "Always"]
SidecarContainer ==
    [Name |-> "sidecar", Image |-> ImgRedis, ImagePullPolicy |-> "IfNotPresent"]

TemplateContainers ==
    {<<AppContainer>>, <<SidecarContainer>>,
     <<AppContainer, SidecarContainer>>, <<SidecarContainer, AppContainer>>}

\* the pods the label selector of a workload can match
PodPending ==
    [Phase |-> "Pending", Ready |-> FALSE,
     ContainerStatuses |-> <<[Name |-> "app", ImageID |-> Empty]>>]
PodStarting ==
    [Phase |-> "Running", Ready |-> FALSE,
     ContainerStatuses |-> <<[Name |-> "app", ImageID |-> Pullable(DigB)]>>]
PodServing ==
    [Phase |-> "Running", Ready |-> TRUE,
     ContainerStatuses |-> <<[Name |-> "app", ImageID |-> Pullable(DigA)],
                             [Name |-> "sidecar", ImageID |-> LocalID]>>]
PodPartial ==
    [Phase |-> "Running", Ready |-> TRUE,
     ContainerStatuses |-> <<[Name |-> "sidecar", ImageID |-> LocalID]>>]

PodPool == {PodPending, PodStarting, PodServing, PodPartial}

PodLists == UNION {[1..n -> PodPool] : n \in 0..MaxPods}

\* what Pods(namespace).List answers for the selector of a workload
PodViews ==
    {[ok |-> FALSE, Items |-> <<>>]}
        \cup {[ok |-> TRUE, Items |-> ps] : ps \in PodLists}

WorkloadObjects ==
    {[Type |-> t, Name |-> "web", Namespace |-> ns, Available |-> a,
      Containers |-> cs, Pods |-> pv] :
        t \in {WorkloadTypes[i] : i \in 1..Len(WorkloadTypes)},
        ns \in Namespaces, a \in 0..1, cs \in TemplateContainers,
        pv \in PodViews}

\* a second workload, listed after the first one
OtherObjects ==
    {[Type |-> "StatefulSet", Name |-> "db", Namespace |-> "kube-system",
      Available |-> a, Containers |-> <<AppContainer>>,
      Pods |-> [ok |-> TRUE, Items |-> <<PodServing>>]] : a \in 0..1}

\* Config.DisableNamespaces after LoadConfig split DISABLE_NAMESPACES
DisableNamespacesLists ==
    {<<>>, <<"kube-system">>, <<"", "kube-system">>}

\* processWorkload, the loop over excludeNamespaces
NamespaceExcludedFirst(namespace, excludeNamespaces) ==
    /\ Len(excludeNamespaces) > 0
    /\ excludeNamespaces[1] # ""
    /\ excludeNamespaces[1] = namespace
NamespaceExcluded(namespace, excludeNamespaces) ==
    \E i \in 1..Len(excludeNamespaces) :
        /\ excludeNamespaces[i] # ""
        /\ excludeNamespaces[i] = namespace

\* processWorkload, the test on the pull policy of a container
IsPullAlwaysOrIfNotPresent(container) ==
    container.ImagePullPolicy \in {"Always", "IfNotPresent"}
IsPullAlways(container) == container.ImagePullPolicy = "Always"

\* processWorkload, the containers it extracts
AlwaysContainers(podSpecContainers) ==
    LET kept == SelectSeq(podSpecContainers, IsPullAlways)
    IN  [i \in 1..Len(kept) |->
            [Name |-> kept[i].Name, Image |-> kept[i].Image,
             ImagePullPolicy |-> kept[i].ImagePullPolicy,
             CurrentDigest |-> Empty]]

\* fillCurrentDigestsFromSelector, the pod it selects: 0 when none is running
SelectedPodLast(items) ==
    LET running == {i \in 1..Len(items) : items[i].Phase = "Running"}
    IN  IF running = {} THEN 0
        ELSE CHOOSE i \in running : \A j \in running : j <= i
SelectedPod(items) ==
    LET running == {i \in 1..Len(items) : items[i].Phase = "Running"}
    IN  IF running = {} THEN 0
        ELSE CHOOSE i \in running : \A j \in running : i <= j

\* containerStatusMap: the last status of a name is the one the map keeps
StatusPositions(statuses, name) ==
    {i \in 1..Len(statuses) : statuses[i].Name = name}

StatusImageID(statuses, name) ==
    LET at == StatusPositions(statuses, name)
    IN  statuses[CHOOSE i \in at : \A j \in at : j <= i].ImageID

fillCurrentDigestsFromSelector(pods, containers) ==
    IF ~pods.ok THEN [err |-> "failed to list pods", containers |-> containers]
    ELSE IF Len(pods.Items) = 0
    THEN [err |-> "no pods found", containers |-> containers]
    ELSE IF SelectedPod(pods.Items) = 0
    THEN [err |-> "no running pods found", containers |-> containers]
    ELSE LET statuses == pods.Items[SelectedPod(pods.Items)].ContainerStatuses
         IN  [err |-> "",
              containers |->
                [i \in 1..Len(containers) |->
                    IF StatusPositions(statuses, containers[i].Name) # {}
                    THEN [containers[i] EXCEPT !.CurrentDigest =
                            extractDigestFromImageID(
                                StatusImageID(statuses, containers[i].Name))]
                    ELSE containers[i]]]

\* processWorkload: <<>> for nil, else the one WorkloadInfo
processWorkloadOf(object, excludeNamespaces) ==
    IF NamespaceExcluded(object.Namespace, excludeNamespaces) THEN <<>>
    ELSE LET containers == AlwaysContainers(object.Containers)
         IN  IF Len(containers) = 0 THEN <<>>
             ELSE <<[Type |-> object.Type, Name |-> object.Name,
                     Namespace |-> object.Namespace,
                     Containers |->
                        fillCurrentDigestsFromSelector(object.Pods,
                                                       containers).containers]>>

\* ListWorkloads, the test on the available replicas of an item
HasAvailableIfDeployment(object) ==
    object.Type # "Deployment" \/ object.Available > 0
HasAvailable(object) == ~(object.Available <= 0)

RECURSIVE processItems(_, _)
processItems(items, excludeNamespaces) ==
    IF items = <<>> THEN <<>>
    ELSE (IF HasAvailable(Head(items))
          THEN processWorkloadOf(Head(items), excludeNamespaces)
          ELSE <<>>)
         \o processItems(Tail(items), excludeNamespaces)

ItemsOfType(cluster, type) ==
    SelectSeq(cluster, LAMBDA object : object.Type = type)

ListWorkloadsOf(cluster, fail, excludeNamespaces) ==
    IF fail = "Deployment"
    THEN [err |-> TRUE, workloads |-> <<>>]
    ELSE IF fail = "DaemonSet"
    THEN [err |-> TRUE, workloads |-> <<>>]
    ELSE IF fail = "StatefulSet"
    THEN [err |-> TRUE, workloads |-> <<>>]
    ELSE [err |-> FALSE,
          workloads |->
             processItems(ItemsOfType(cluster, "Deployment"), excludeNamespaces)
             \o processItems(ItemsOfType(cluster, "DaemonSet"), excludeNamespaces)
             \o processItems(ItemsOfType(cluster, "StatefulSet"), excludeNamespaces)]

restOfList ==
    <<clusterVars, configVars, pc, inventory, idx, scanned, updated, failed,
      results, newDigest, elapsed, cycle, published, log, patchCalls, sent,
      parseVars, matchVars, credVars, completeVars, waitVars, cleanupVars,
      mainVars, tagVars, updateVars, imageVars>>

InitList ==
    /\ ProcessOff
    /\ ParseOff
    /\ MatchOff
    /\ CredOff
    /\ CompleteOff
    /\ WaitOff
    /\ CleanupOff
    /\ MainOff
    /\ TagOff
    /\ UpdateOff
    /\ ImageOff
    /\ lPhase = "input"
    /\ \E first \in WorkloadObjects, second \in OtherObjects :
          lCluster = <<first, second>>
    /\ lFail \in {"none"} \cup {WorkloadTypes[i] : i \in 1..Len(WorkloadTypes)}
    /\ lExclude \in DisableNamespacesLists
    /\ lResult = [err |-> FALSE, workloads |-> <<>>]
    /\ lScanned = {}

\* check lists the workloads, passing the namespace deny-list of the config
CheckLists ==
    /\ lPhase = "input"
    /\ lResult' = ListWorkloadsOf(lCluster, lFail, lExclude)
    /\ lPhase' = "listed"
    /\ UNCHANGED <<lCluster, lFail, lExclude, lScanned, restOfList>>

\* check returns the error of ListWorkloads
CheckListError ==
    /\ lPhase = "listed"
    /\ lResult.err
    /\ lPhase' = "failed"
    /\ UNCHANGED <<lCluster, lFail, lExclude, lResult, lScanned, restOfList>>

\* check goes over the containers of the workloads it was given
CheckScans ==
    /\ lPhase = "listed"
    /\ ~lResult.err
    /\ lScanned' =
          UNION {{<<lResult.workloads[i].Name,
                    lResult.workloads[i].Containers[k].Name>> :
                        k \in 1..Len(lResult.workloads[i].Containers)} :
                 i \in 1..Len(lResult.workloads)}
    /\ lPhase' = "scanned"
    /\ UNCHANGED <<lCluster, lFail, lExclude, lResult, restOfList>>

NextList == CheckLists \/ CheckListError \/ CheckScans

SpecList == InitList /\ [][NextList]_vars

----------------------------------------------------------------------------
(* The revision that tracks only the tag latest: its ListWorkloads keeps   *)
(* the containers of pull policy Always whose tag, as extractImageTag      *)
(* reads it, is "latest", and its check tests container.Tag once more      *)
(* before it counts the container as scanned.  Digest lookups are          *)
(* anonymous, a failed lookup is counted and not notified.                 *)

\* extractImageTag: what follows the last ":" of the string cut at the
\* first "@"; "latest" when there is no ":"
extractImageTag(image) ==
    LET cut == IF Index(image, "@") # 0
               THEN SubSeq(image, 1, Index(image, "@") - 1)
               ELSE image
        parts == Split(cut, ":")
    IN  IF Len(parts) > 1 THEN parts[Len(parts)] ELSE Latest

\* a test that lets every tag through
IsLatestTagOrAny(tag) == TRUE
\* tag != "latest" in processWorkload, container.Tag != "latest" in check
IsLatestTag(tag) == tag = Latest

\* image strings [host[:port]/]app[:tag][@digest]
TagHosts == {<<>>, <<"reg", "/">>, <<"reg", ":", "5000", "/">>}
TagTags == {<<>>, <<":", "latest">>, <<":", "v1">>}
TagDigests == {<<>>, <<"@">> \o DigA}

TagImages ==
    {h \o <<"app">> \o t \o d : h \in TagHosts, t \in TagTags, d \in TagDigests}

\* processWorkload: pull policy Always and tag latest
TrackedContainers(podSpecContainers) ==
    LET kept == SelectSeq(podSpecContainers,
                    LAMBDA c : /\ c.ImagePullPolicy = "Always"
                               /\ IsLatestTag(extractImageTag(c.Image)))
    IN  [i \in 1..Len(kept) |->
            [Name |-> kept[i].Name, Image |-> kept[i].Image,
             ImagePullPolicy |-> kept[i].ImagePullPolicy,
             Tag |-> extractImageTag(kept[i].Image),
             CurrentDigest |-> Empty]]

\* fillCurrentDigestsFromSelector with the digests the running pod reports
FillDigests(containers, running) ==
    [i \in 1..Len(containers) |->
        [containers[i] EXCEPT !.CurrentDigest = running[containers[i].Name]]]

NoCalls ==
    [idx |-> 1, scanned |-> 0, updated |-> 0, failed |-> 0,
     lookups |-> <<>>, patches |-> <<>>, notes |-> <<>>, completed |-> <<>>]

restOfTag ==
    <<clusterVars, configVars, pc, inventory, idx, scanned, updated, failed,
      results, newDigest, elapsed, cycle, published, log, patchCalls, sent,
      parseVars, matchVars, credVars, completeVars, waitVars, cleanupVars,
      mainVars, listVars, updateVars, imageVars>>

InitTag ==
    /\ ProcessOff
    /\ ParseOff
    /\ MatchOff
    /\ CredOff
    /\ CompleteOff
    /\ WaitOff
    /\ CleanupOff
    /\ ImageOff
    /\ MainOff
    /\ ListOff
    /\ UpdateOff
    /\ tPhase = "input"
    /\ \E image \in TagImages, policy \in {"Always", "IfNotPresent"},
          denied \in {{}, {"web"}}, cur \in {Empty, DigA} :
          tInput = [containers |->
                      <<[Name |-> "app", Image |-> image,
                         ImagePullPolicy |-> policy],
                        [Name |-> "web", Image |-> ImgNginx,
                         ImagePullPolicy |-> "Always"]>>,
                    disabled |-> denied,
                    running |-> [app |-> cur, web |-> DigA]]
    /\ tInventory = <<>>
    /\ tLog = <<>>

\* check: ListWorkloads returned the tracked containers
TagList ==
    /\ tPhase = "input"
    /\ tInventory' = IF Len(TrackedContainers(tInput.containers)) = 0 THEN <<>>
                     ELSE FillDigests(TrackedContainers(tInput.containers),
                                      tInput.running)
    /\ tLog' = NoCalls
    /\ tPhase' = "check"
    /\ UNCHANGED <<tInput, restOfTag>>

\* check: one turn of the loop, from the deny-list to the outcome of the
\* update
TagCheckContainer ==
    /\ tPhase = "check"
    /\ tLog.idx <= Len(tInventory)
    /\ LET c == tInventory[tLog.idx]
           i == tLog.idx
           next == [tLog EXCEPT !.idx = i + 1]
           name == ImageName(ParseImage(c.Image))
       IN  IF c.Name \in tInput.disabled THEN tLog' = next
           ELSE IF ~IsLatestTag(c.Tag) THEN tLog' = next
           ELSE \E ok \in BOOLEAN, digest \in {DigA, DigB}, done \in BOOLEAN :
                LET asked == [next EXCEPT !.scanned = @ + 1,
                                !.lookups = Append(@, [pos |-> i, name |-> name])]
                IN  IF ~ok
                    THEN tLog' = [asked EXCEPT !.failed = @ + 1]
                    ELSE IF ~UpdateNeeded(c.CurrentDigest, digest)
                    THEN tLog' = asked
                    ELSE LET tried == [asked EXCEPT !.patches =
                                Append(@, [pos |-> i,
                                           image |-> NewImage(c.Image, digest)])]
                         IN  IF done
                             THEN tLog' = [tried EXCEPT !.updated = @ + 1,
                                    !.notes = Append(@, [pos |-> i, success |-> TRUE])]
                             ELSE tLog' = [tried EXCEPT !.failed = @ + 1,
                                    !.notes = Append(@, [pos |-> i, success |-> FALSE])]
    /\ UNCHANGED <<tPhase, tInput, tInventory, restOfTag>>

\* check: the loop is over, NotifyCheckCompleted(updatedCount, scannedCount)
TagSessionDone ==
    /\ tPhase = "check"
    /\ tLog.idx > Len(tInventory)
    /\ tLog' = [tLog EXCEPT !.completed = <<[updated |-> tLog.updated,
                                            scanned |-> tLog.scanned]>>]
    /\ tPhase' = "done"
    /\ UNCHANGED <<tInput, tInventory, restOfTag>>

NextTag == TagList \/ TagCheckContainer \/ TagSessionDone

SpecTag == InitTag /\ [][NextTag]_vars

----------------------------------------------------------------------------
(* Watcher.updateContainer from its first call to its return, and the      *)
(* lines of check that record its outcome: UpdateWorkloadImage, then       *)
(* WaitForRollout, then CleanupOldResources when Config.Cleanup is set.    *)

restOfUpdate ==
    <<clusterVars, configVars, pc, inventory, idx, scanned, updated, failed,
      results, newDigest, elapsed, cycle, published, log, patchCalls, sent,
      parseVars, matchVars, credVars, completeVars, waitVars, cleanupVars,
      mainVars, listVars, tagVars, imageVars>>

\* check has found an update needed and calls updateContainer
InitUpdate ==
    /\ ProcessOff
    /\ ParseOff
    /\ MatchOff
    /\ CredOff
    /\ CompleteOff
    /\ WaitOff
    /\ CleanupOff
    /\ MainOff
    /\ ListOff
    /\ TagOff
    /\ ImageOff
    /\ uPc = "patch"
    /\ uCfg \in [cleanup : BOOLEAN, enabled : BOOLEAN]
    /\ uElapsed = 0
    /\ uTrace = <<>>
    /\ uOut = NoOutcome

\* updateContainer, lines 176-180: UpdateWorkloadImage returns
UpdatePatch ==
    /\ uPc = "patch"
    /\ \E accepted \in BOOLEAN :
          IF accepted
          THEN /\ uTrace' = Append(uTrace, "patched")
               /\ uPc' = "wait"
          ELSE /\ uTrace' = Append(uTrace, "patchfail")
               /\ uPc' = "err"
    /\ UNCHANGED <<uCfg, uElapsed, uOut, restOfUpdate>>

\* a wait that takes a failed status read for a completed rollout
UpdatePollTickLenient ==
    /\ uPc = "wait"
    /\ uElapsed + PollInterval <= RolloutTimeout
    /\ \E readOK \in BOOLEAN, complete \in BOOLEAN :
          IF ~readOK
          THEN /\ uTrace' = Append(uTrace, "pollfail")
               /\ uPc' = IF uCfg.cleanup THEN "cleanup" ELSE "nil"
               /\ UNCHANGED uElapsed
          ELSE IF complete
          THEN /\ uTrace' = Append(uTrace, "complete")
               /\ uPc' = IF uCfg.cleanup THEN "cleanup" ELSE "nil"
               /\ UNCHANGED uElapsed
          ELSE /\ uElapsed' = uElapsed + PollInterval
               /\ UNCHANGED <<uPc, uTrace>>
    /\ UNCHANGED <<uCfg, uOut, restOfUpdate>>

\* WaitForRollout, case <-ticker.C, and updateContainer, lines 187-193: a
\* failed read ends the update, a complete rollout goes on to the cleanup
\* when Config.Cleanup is set and to the return otherwise
UpdatePollTick ==
    /\ uPc = "wait"
    /\ uElapsed + PollInterval <= RolloutTimeout
    /\ \E readOK \in BOOLEAN, complete \in BOOLEAN :
          IF ~readOK
          THEN /\ uTrace' = Append(uTrace, "pollfail")
               /\ uPc' = "err"
               /\ UNCHANGED uElapsed
          ELSE IF complete
          THEN /\ uTrace' = Append(uTrace, "complete")
               /\ uPc' = IF uCfg.cleanup THEN "cleanup" ELSE "nil"
               /\ UNCHANGED uElapsed
          ELSE /\ uElapsed' = uElapsed + PollInterval
               /\ UNCHANGED <<uPc, uTrace>>
    /\ UNCHANGED <<uCfg, uOut, restOfUpdate>>

\* WaitForRollout, case <-ctx.Done()
UpdateTimeout ==
    /\ uPc = "wait"
    /\ uElapsed + PollInterval >= RolloutTimeout
    /\ uTrace' = Append(uTrace, "timeout")
    /\ uPc' = "err"
    /\ UNCHANGED <<uCfg, uElapsed, uOut, restOfUpdate>>

\* updateContainer, lines 193-204: CleanupOldResources, its error logged
UpdateCleanup ==
    /\ uPc = "cleanup"
    /\ \E ok \in BOOLEAN :
          uTrace' = Append(uTrace, IF ok THEN "cleaned" ELSE "cleanupfail")
    /\ uPc' = "nil"
    /\ UNCHANGED <<uCfg, uElapsed, uOut, restOfUpdate>>

\* check, lines 142-146: updatedCount++, AddResult(image, true, nil)
CheckRecordsSuccess ==
    /\ uPc = "nil"
    /\ uOut' = [uOut EXCEPT !.updated = @ + 1,
                  !.results = IF uCfg.enabled THEN Append(@, TRUE) ELSE @]
    /\ uTrace' = Append(uTrace, "success")
    /\ uPc' = "recorded"
    /\ UNCHANGED <<uCfg, uElapsed, restOfUpdate>>

\* check, lines 133-140: AddResult(image, false, err), failedCount++
CheckRecordsFailure ==
    /\ uPc = "err"
    /\ uOut' = [uOut EXCEPT !.failed = @ + 1,
                  !.results = IF uCfg.enabled THEN Append(@, FALSE) ELSE @]
    /\ uTrace' = Append(uTrace, "failure")
    /\ uPc' = "recorded"
    /\ UNCHANGED <<uCfg, uElapsed, restOfUpdate>>

NextUpdate ==
    \/ UpdatePatch
    \/ UpdatePollTick
    \/ UpdateTimeout
    \/ UpdateCleanup
    \/ CheckRecordsSuccess
    \/ CheckRecordsFailure

SpecUpdate == InitUpdate /\ [][NextUpdate]_vars

-----------------------------------------------------------------------------
(* UpdateWorkloadImage                                                     *)

UpdatedAt == "kube-watchtower.io/updated-at"

\* the resourceVersion up to which another client writes the workload
MaxVersion == 2

\* what time.Now().Format(time.RFC3339) can give
Instants == {"T1", "T2"}

CallTypes == {"Deployment", "DaemonSet", "StatefulSet", "CronJob"}

\* Spec.Template.Spec.Containers; the API server admits no two containers
\* of one name
ImageTemplates ==
    {<<[name |-> "app", image |-> ImgNginx]>>,
     <<[name |-> "app", image |-> ImgNginx],
       [name |-> "side", image |-> ImgRedis]>>,
     <<[name |-> "side", image |-> ImgRedis],
       [name |-> "app", image |-> ImgNginx]>>}

\* Spec.Template.Annotations: nil, empty, or holding a key of another
\* owner, a stamp of an earlier update, or both
AnnotationMaps ==
    {[nil |-> TRUE, map |-> [k \in {} |-> ""]],
     [nil |-> FALSE, map |-> [k \in {} |-> ""]],
     [nil |-> FALSE, map |-> [k \in {"owner"} |-> "team"]],
     [nil |-> FALSE, map |-> [k \in {UpdatedAt} |-> "T0"]],
     [nil |-> FALSE,
      map |-> [k \in {"owner", UpdatedAt} |->
                  IF k = "owner" THEN "team" ELSE "T0"]]}

\* m[k] = v of a Go map
MapSet(m, k, v) ==
    [x \in DOMAIN m \cup {k} |-> IF x = k THEN v ELSE m[x]]

\* the object after updateContainerImage and the loop over annotation
Stamped(object, containerName, newImage, now) ==
    [object EXCEPT
        !.containers = updateContainerImage(@, containerName, newImage),
        !.annotations = [nil |-> FALSE, map |-> MapSet(@.map, UpdatedAt, now)]]

restOfImage ==
    <<clusterVars, configVars, pc, inventory, idx, scanned, updated, failed,
      results, newDigest, elapsed, cycle, published, log, patchCalls, sent,
      parseVars, matchVars, credVars, completeVars, waitVars, cleanupVars,
      mainVars, listVars, tagVars, updateVars>>

\* the call is entered: annotation holds the formatted time.Now
InitImage ==
    /\ ProcessOff
    /\ ParseOff
    /\ MatchOff
    /\ CredOff
    /\ CompleteOff
    /\ WaitOff
    /\ CleanupOff
    /\ MainOff
    /\ ListOff
    /\ TagOff
    /\ UpdateOff
    /\ iPc = "get"
    /\ iCall \in [type : CallTypes, container : {"app", "side", "ghost"},
                  image : {NewImage(ImgNginx, DigB)}, now : Instants]
    /\ iServer \in [version : {0}, containers : ImageTemplates,
                    annotations : AnnotationMaps]
    /\ iHeld = NoObject

\* switch workloadType, default
ImageUnsupported ==
    /\ iPc = "get"
    /\ iCall.type \notin {WorkloadTypes[k] : k \in 1..Len(WorkloadTypes)}
    /\ iPc' = "err"
    /\ UNCHANGED <<iCall, iServer, iHeld, restOfImage>>

\* Get of the workload: an error, or the stored object with its
\* resourceVersion
ImageGet ==
    /\ iPc = "get"
    /\ iCall.type \in {WorkloadTypes[k] : k \in 1..Len(WorkloadTypes)}
    /\ \E ok \in BOOLEAN :
          IF ok
          THEN /\ iHeld' = iServer
               /\ iPc' = "set"
          ELSE /\ iPc' = "err"
               /\ UNCHANGED iHeld
    /\ UNCHANGED <<iCall, iServer, restOfImage>>

\* updateContainerImage, the annotation, and Update of the held object: the
\* API server refuses an object whose resourceVersion is not the stored one
ImageSet ==
    /\ iPc = "set"
    /\ IF ~HasContainer(iHeld.containers, iCall.container)
       THEN /\ iPc' = "err"
            /\ UNCHANGED <<iServer, iHeld>>
       ELSE /\ iHeld' = Stamped(iHeld, iCall.container, iCall.image, iCall.now)
            /\ \E ok \in BOOLEAN :
                  IF ok /\ iHeld.version = iServer.version
                  THEN /\ iServer' = [iHeld' EXCEPT !.version = @ + 1]
                       /\ iPc' = "nil"
                  ELSE /\ iPc' = "err"
                       /\ UNCHANGED iServer
    /\ UNCHANGED <<iCall, restOfImage>>

\* another client of the API server writes the workload while the call runs
ImageOtherWriter ==
    /\ iPc \in {"get", "set"}
    /\ iServer.version < MaxVersion
    /\ \/ iServer' = [iServer EXCEPT
                         !.version = @ + 1,
                         !.annotations = [nil |-> FALSE,
                                          map |-> MapSet(@.map, "owner", "ops")]]
       \/ \E k \in 1..Len(iServer.containers) :
             iServer' = [iServer EXCEPT
                            !.version = @ + 1,
                            !.containers[k].image = ImgUpper]
    /\ UNCHANGED <<iPc, iCall, iHeld, restOfImage>>

NextImage ==
    \/ ImageUnsupported
    \/ ImageGet
    \/ ImageSet
    \/ ImageOtherWriter

SpecImage == InitImage /\ [][NextImage]_vars

----------------------------------------------------------------------------
(* The image reference grammar, name[:tag][@digest] with name =            *)
(* [host[:port]/]path: what the properties compare ParseImage with         *)

LastIndex(s, sep) ==
    IF \E i \in 1..Len(s) : s[i] = sep
    THEN CHOOSE i \in 1..Len(s) : s[i] = sep /\ \A j \in (i + 1)..Len(s) : s[j] # sep
    ELSE 0

RefNamePart(s) == IF Contains(s, "@") THEN SubSeq(s, 1, Index(s, "@") - 1) ELSE s

RefDigest(s) == IF Contains(s, "@") THEN SubSeq(s, Index(s, "@") + 1, Len(s)) ELSE Empty

\* the last ":" of the name starts a tag unless a "/" follows it (a port)
RefHasTag(s) ==
    /\ Contains(RefNamePart(s), ":")
    /\ ~Contains(SubSeq(RefNamePart(s), LastIndex(RefNamePart(s), ":") + 1,
                        Len(RefNamePart(s))), "/")

RefRepository(s) ==
    IF RefHasTag(s)
    THEN SubSeq(RefNamePart(s), 1, LastIndex(RefNamePart(s), ":") - 1)
    ELSE RefNamePart(s)

RefTag(s) ==
    IF RefHasTag(s)
    THEN SubSeq(RefNamePart(s), LastIndex(RefNamePart(s), ":") + 1, Len(RefNamePart(s)))
    ELSE Latest

IsWord(t) == t \notin {":", "@", "/"}

IsPort(t) == t = "5000"

\* words separated by single "/", the first of them possibly host:port
WellFormedRepository(r) ==
    /\ r # Empty
    /\ \A i \in 1..Len(Split(r, "/")) :
          LET part == Split(r, "/")[i]
          IN  \/ Len(part) = 1 /\ IsWord(part[1])
              \/ /\ i = 1
                 /\ Len(Split(r, "/")) > 1
                 /\ Len(part) = 3
                 /\ IsWord(part[1]) /\ ~IsPort(part[1])
                 /\ part[2] = ":"
                 /\ IsPort(part[3])

WellFormedDigest(d) ==
    \/ Len(d) = 1 /\ IsWord(d[1])
    \/ Len(d) = 3 /\ IsWord(d[1]) /\ d[2] = ":" /\ IsWord(d[3])

WellFormedImage(s) ==
    /\ WellFormedRepository(RefRepository(s))
    /\ Len(RefTag(s)) = 1 /\ IsWord(RefTag(s)[1])
    /\ Contains(s, "@") => WellFormedDigest(RefDigest(s))

----------------------------------------------------------------------------
(* Properties *)

CycleOver == pc = "idle" /\ cycle > 0

Positions == 1..Len(log)

\* updateContainer was invoked for inventory position i in this cycle
Attempted(i) ==
    \/ pc = "patch" /\ idx = i
    \/ \E k \in 1..Len(patchCalls) : patchCalls[k].pos = i

ResultsFor(i) == SelectSeq(results, LAMBDA r : r.pos = i)

FailureOutcomes == {"digestfail", "patchfail", "notfound", "pollfail", "timeout"}

\* C1: a failure while handling one container never terminates the process
\* or aborts the cycle: when the cycle is over, every container that is not
\* on the deny-list had its remote digest requested.
C1_FailureIsolated ==
    /\ pc \notin {"fatal", "panic"}
    /\ CycleOver =>
          \A i \in Positions : inventory[i].name \notin disabled => log[i].requested

\* C2: with no registry change since the first run started, the second run
\* makes no patch call; stated for the containers whose template the first
\* run already pinned to the digest the registry still publishes.
C2_SecondRunNoPatch ==
    (cycle = 2 /\ published = 0) =>
        \A k \in 1..Len(patchCalls) :
            ParseImage(inventory[patchCalls[k].pos].image).Digest
                # log[patchCalls[k].pos].digest

\* C3: with a known running digest, an update is attempted if and only if
\* the running digest and the resolved remote digest differ as strings.
C3_UpdateIffDigestDiffers ==
    \A i \in Positions :
        (log[i].resolved /\ inventory[i].cur # Empty) =>
            (Attempted(i) <=> inventory[i].cur # log[i].digest)

\* a running digest that differs from the remote one only by case was updated
C3_CaseDiffersUpdated ==
    \E i \in Positions :
        /\ log[i].resolved
        /\ inventory[i].cur = DigAUpper
        /\ log[i].digest = DigA
        /\ log[i].outcome = "updated"

\* C4: with an unknown running digest, every resolved remote digest leads
\* to an update attempt.
C4_UnknownDigestUpdates ==
    \A i \in Positions :
        (log[i].resolved /\ inventory[i].cur = Empty) => Attempted(i)

\* a container with unknown running digest had its workload patched
C4_UnknownPatched ==
    \E i \in Positions :
        /\ log[i].resolved
        /\ inventory[i].cur = Empty
        /\ \E k \in 1..Len(patchCalls) : patchCalls[k].pos = i

ScenarioInventory ==
    <<[w |-> "web", name |-> "nginx", image |-> ImgNginx, cur |-> ShortA]>>

C7_DisabledUntouched ==
    /\ \A i \in Positions :
          inventory[i].name \in disabled =>
              /\ ~log[i].requested
              /\ ~Attempted(i)
              /\ ResultsFor(i) = <<>>
    /\ scanned = Cardinality({i \in Positions : inventory[i].name \notin disabled
                                               /\ log[i].outcome # "none"})

\* a cycle passed over the denied container redis and scanned the other one
C7_RedisSkipped ==
    /\ CycleOver
    /\ \E i \in Positions : inventory[i].name = "redis" /\ log[i].outcome = "skipped"
    /\ scanned = 1

\* C8: the image patched into the container is repository:tag@newDigest,
\* with the repository and the tag of the declared image (tag latest when it
\* has none) and exactly one digest.
C8_PatchedImage ==
    \A k \in 1..Len(patchCalls) :
        WellFormedImage(inventory[patchCalls[k].pos].image) =>
            patchCalls[k].image =
                RefRepository(inventory[patchCalls[k].pos].image) \o <<":">>
                    \o RefTag(inventory[patchCalls[k].pos].image) \o <<"@">>
                    \o log[patchCalls[k].pos].digest

\* C9: ParseImage returns tag latest when the image has no tag, and moves
\* the digest into its own field, leaving repository and tag without it.
C9_DefaultTagAndDigest ==
    (pPhase = "parsed" /\ WellFormedImage(pImage)) =>
        /\ ~RefHasTag(pImage) => pInfo.Tag = Latest
        /\ pInfo.Digest = RefDigest(pImage)
        /\ ~Contains(pInfo.Repository, "@")
        /\ ~Contains(pInfo.Tag, "@")

\* C10 as stated: for every non-empty image string the repository returned
\* by ParseImage is not empty.
C10_RepositoryNeverEmpty ==
    pPhase = "parsed" => pInfo.Repository # Empty

\* C10 amended: ParseImage returns a reference for every non-empty image
\* string, and its repository is not empty unless the string starts with
\* ":" or "@".
C10_RepositoryNonEmpty ==
    pPhase = "parsed" =>
        /\ DOMAIN pInfo = {"Repository", "Tag", "Digest"}
        /\ pImage[1] \notin {":", "@"} => pInfo.Repository # Empty

\* a malformed string was split as far as it goes
C10_MalformedParsed ==
    /\ pPhase = "parsed"
    /\ pImage = <<"app", "/", ":", "@", ":">>
    /\ pInfo = [Repository |-> <<"app", "/">>, Tag |-> Empty, Digest |-> <<":">>]

\* the registries that all name the default registry
DefaultRegistryAliases ==
    {"index.docker.io", "docker.io", "registry-1.docker.io", "registry.hub.docker.com"}

\* C11: two registry strings match if and only if they name the same host
\* and path once scheme, trailing slash and letter case are set aside, or
\* both name a host of the default-registry alias set.
C11_MatchIffSameOrAlias ==
    mPhase = "matched" =>
        (mMatch <=>
            \/ mImage.host = mSecret.host /\ mImage.path = mSecret.path
            \/ /\ mImage.host \in DefaultRegistryAliases /\ ~mImage.path
               /\ mSecret.host \in DefaultRegistryAliases /\ ~mSecret.path)

\* two differently written aliases of the default registry were matched
C11_AliasesMatched ==
    /\ mPhase = "matched"
    /\ Written(mImage) = <<"index.docker.io">>
    /\ Written(mSecret) = <<"https://", "DOCKER.IO", "/">>
    /\ mMatch

\* the registry the container's image is pulled from, as the lookup sees it
LookupRegistry == extractRegistry(ParseImage(cImage).Repository)

\* the entries for the registry of the image in the secrets that can be
\* read: <<i, j>> is entry j of secret i
EntryPositions ==
    LET registry == LookupRegistry
    IN  UNION {LET auths == ExtractAuths(cSecrets[i].entries)
               IN  {<<i, j>> : j \in {k \in 1..Len(auths) :
                                        matchesRegistry(registry, auths[k].Registry)}} :
                  i \in {n \in 1..Len(cSecrets) : cSecrets[n].fault = "none"}}

\* C12: the credential returned is the first matching entry of the first
\* secret, in declaration order, that can be read and has one; with no
\* matching entry there is no credential and the digest is still looked up,
\* without basic authentication.
C12_FirstMatchWins ==
    cPhase = "requested" =>
        LET matching == EntryPositions
        IN  /\ cCred # <<>> =>
                  \E ij \in matching :
                      /\ cCred[1] = ExtractAuths(cSecrets[ij[1]].entries)[ij[2]]
                      /\ \A kl \in matching :
                            kl[1] > ij[1] \/ (kl[1] = ij[1] /\ kl[2] >= ij[2])
            /\ cCred = <<>> =>
                  /\ matching = {}
                  /\ cAuth = "keychain"
                  /\ cOutcome \in {"resolved", "digestfail"}

\* an unreadable secret was passed over and the first of two matching
\* entries of the next secret was returned
C12_SecondSecretFirstEntry ==
    /\ cPhase = "requested"
    /\ cImage = ImgGhcr
    /\ Len(cSecrets) = 2
    /\ cSecrets[1].fault = "unreadable"
    /\ cSecrets[2].fault = "none"
    /\ Len(cSecrets[2].entries) = 2
    /\ cSecrets[2].entries[2] = AuthGhcr
    /\ cCred = <<[Registry |-> <<"https://", "ghcr.io">>,
                  Username |-> <<"u2">>, Password |-> <<"p2">>]>>

\* the entry of a secret read in this lookup and the RegistryAuth made of it
ParsedPairs ==
    UNION {{<<cSecrets[i].entries[jk[1]], cParsed[i].auths[jk[2]]>> :
                jk \in {p \in (1..Len(cSecrets[i].entries)) \X (1..Len(cParsed[i].auths)) :
                           cSecrets[i].entries[p[1]].registry
                               = cParsed[i].auths[p[2]].Registry}} :
              i \in {n \in 1..Len(cParsed) : ~cParsed[n].err}}

KeepsDiscrete(ea) ==
    /\ ea[2].Username = ea[1].config.Username
    /\ ea[2].Password = ea[1].config.Password

\* C13 as stated: the decoded combined field is used only when the discrete
\* username and password are both empty; an entry with a discrete username
\* or password keeps them.
C13_DecodedOnlyWhenBothEmpty ==
    \A ea \in ParsedPairs :
        (ea[1].config.Username # Empty \/ ea[1].config.Password # Empty)
            => KeepsDiscrete(ea)

\* C13 amended: the decoded combined field is used when the discrete
\* username or the discrete password is empty; an entry with both a
\* discrete username and a discrete password keeps them whatever the
\* combined field holds.
C13_DecodedWhenOneEmpty ==
    \A ea \in ParsedPairs :
        /\ (ea[1].config.Username # Empty /\ ea[1].config.Password # Empty)
              => KeepsDiscrete(ea)
        /\ (/\ ea[1].config.Auth = B64User2
            /\ (ea[1].config.Username = Empty \/ ea[1].config.Password = Empty))
              => ea[2].Username = <<"u2">> /\ ea[2].Password = <<"p2">>

\* one secret gave a kept discrete pair and a decoded pair
C13_KeptAndDecoded ==
    /\ cPhase = "requested"
    /\ \E i \in 1..Len(cParsed) :
          cParsed[i].auths =
              <<[Registry |-> <<"docker.io">>,
                 Username |-> <<"u3">>, Password |-> <<"p3">>],
                [Registry |-> <<"https://", "ghcr.io">>,
                 Username |-> <<"u2">>, Password |-> <<"p2">>]>>

\* secret i holds nothing that can be decoded
NothingDecodes(i) ==
    \/ cSecrets[i].fault # "none"
    \/ \A j \in 1..Len(cSecrets[i].entries) :
          /\ cSecrets[i].entries[j].config.Auth = B64Broken
          /\ cSecrets[i].entries[j].config.Username = Empty

\* C14: a secret that cannot be read or decoded gives no credential and no
\* failure: the lookup is still made, and when nothing decodes it is made
\* without credentials.
C14_DecodeErrorsNotEscalated ==
    cPhase = "requested" =>
        /\ cAuth \in {"basic", "keychain"}
        /\ cOutcome \in {"resolved", "digestfail"}
        /\ \A i \in 1..Len(cParsed) :
              /\ cSecrets[i].fault # "none" => cParsed[i].err /\ cParsed[i].auths = <<>>
              /\ NothingDecodes(i) => cParsed[i].auths = <<>>
        /\ (\A i \in 1..Len(cSecrets) : NothingDecodes(i)) =>
              cCred = <<>> /\ cAuth = "keychain"

\* a secret with invalid JSON and one with invalid base64 were read, and the
\* digest was resolved without credentials
C14_BrokenSecretsAnonymous ==
    /\ cPhase = "requested"
    /\ cImage = ImgGhcr
    /\ Len(cSecrets) = 2
    /\ cSecrets[1].fault = "badjson"
    /\ cSecrets[2].fault = "none"
    /\ Len(cSecrets[2].entries) = 1
    /\ cSecrets[2].entries[1].config.Auth = B64Broken
    /\ cCred = <<>>
    /\ cAuth = "keychain"
    /\ cOutcome = "resolved"

\* the replica count a scaled workload asks for, 1 when it asks for none
Desired == IF rObj.Spec.Replicas = <<>> THEN 1 ELSE rObj.Spec.Replicas[1]

CaughtUp == rObj.Status.ObservedGeneration >= rObj.Generation

\* C15: for a Deployment or StatefulSet the rollout is complete if and only
\* if the observed generation has caught up and the updated, the current and
\* the available (Deployment) or ready (StatefulSet) replica counts all equal
\* the desired count, 1 when unset.
C15_ScaledCompleteIff ==
    (rPhase = "checked" /\ rKind \in {"Deployment", "StatefulSet"}) =>
        (rComplete <=>
            /\ CaughtUp
            /\ rObj.Status.UpdatedReplicas = Desired
            /\ rObj.Status.Replicas = Desired
            /\ IF rKind = "Deployment"
               THEN rObj.Status.AvailableReplicas = Desired
               ELSE rObj.Status.ReadyReplicas = Desired)

\* a Deployment with no replica count set was found complete with one replica
C15_DefaultOneComplete ==
    /\ rPhase = "checked"
    /\ rKind = "Deployment"
    /\ rObj.Spec.Replicas = <<>>
    /\ rObj.Status.AvailableReplicas = 1
    /\ rObj.Status.ReadyReplicas = 0
    /\ rComplete

\* C16: for a DaemonSet the rollout is complete if and only if the observed
\* generation has caught up and the updated-scheduled, ready and available
\* counts all equal the desired-scheduled count.
C16_DaemonCompleteIff ==
    (rPhase = "checked" /\ rKind = "DaemonSet") =>
        (rComplete <=>
            /\ CaughtUp
            /\ rObj.Status.UpdatedNumberScheduled = rObj.Status.DesiredNumberScheduled
            /\ rObj.Status.NumberReady = rObj.Status.DesiredNumberScheduled
            /\ rObj.Status.NumberAvailable = rObj.Status.DesiredNumberScheduled)

\* a DaemonSet with every pod updated and ready but one not yet available
\* was found incomplete
C16_NotAvailableIncomplete ==
    /\ rPhase = "checked"
    /\ rKind = "DaemonSet"
    /\ CaughtUp
    /\ rObj.Status.DesiredNumberScheduled = 2
    /\ rObj.Status.UpdatedNumberScheduled = 2
    /\ rObj.Status.NumberReady = 2
    /\ rObj.Status.NumberAvailable = 1
    /\ ~rComplete

\* C17: a call of WaitForRollout eventually returns, whatever the status of
\* the workload does and whether or not the parent context is cancelled.
C17_WaitReturns == (wPhase = "waiting") ~> (wPhase = "returned" /\ wResult # "none")

\* the rollout never completed and the wait ended at the deadline
C17_ReturnedAtDeadline ==
    /\ wPhase = "returned"
    /\ wResult = "timeout"
    /\ ~wCancelled
    /\ wObj = DeploymentRolling
    /\ wElapsed = RolloutTimeout

\* C18: whatever the cleanup returns after a completed rollout,
\* updateContainer returns nil, the container gets a success outcome and
\* updated is incremented.
C18_CleanupErrorNotEscalated ==
    kPhase = "done" =>
        /\ kReturn = "nil"
        /\ kOutcome = "success"
        /\ kUpdated = 1

\* a delete of the cleanup failed and the update still counted as a success
C18_DeleteFailedStillSuccess ==
    /\ kPhase = "done"
    /\ kKind = "Deployment"
    /\ kCleanupErr = "delete"
    /\ kOutcome = "success"
    /\ kUpdated = 1

ThisWorkload == OwnedBy(kKind, "web")

OwnRevisions == {rev \in Range(kListed) : rev.OwnerReferences = ThisWorkload}

\* the two own revisions with the highest revision numbers (all, if fewer)
TwoMostRecent ==
    {rev \in OwnRevisions :
        Cardinality({o \in OwnRevisions : o.Revision > rev.Revision}) < 2}

\* C19: the cleanup of a DaemonSet or StatefulSet keeps exactly the two most
\* recent revisions of the workload and deletes its other revisions, in
\* whatever order they are listed; stated for a cleanup in which the List
\* and every delete succeeded and every listed revision is the workload's.
C19_KeepsTwoMostRecent ==
    (/\ kPhase = "done"
     /\ kKind \in {"DaemonSet", "StatefulSet"}
     /\ kCleanup
     /\ kCleanupErr = "none"
     /\ kRefused = {}
     /\ OwnRevisions = Range(kListed)) =>
        OwnRevisions \ kDeleted = TwoMostRecent

\* C20: the cleanup deletes only objects owned by this workload, and for a
\* Deployment only ReplicaSets scaled to zero.
C20_DeletesOnlyOwn ==
    kPhase = "done" =>
        \A o \in kDeleted :
            /\ o.OwnerReferences = ThisWorkload
            /\ kKind = "Deployment" => o.Spec.Replicas = <<0>>

\* the container the watcher is about to patch is not in the workload now
PatchTargetAbsent ==
    /\ pc = "patch"
    /\ \A i \in 1..Len(tmpl[inventory[idx].w]) :
          tmpl[inventory[idx].w][i].name # inventory[idx].name

\* C21: when the container name is absent from the workload's current
\* template, the update call fails as not found and leaves the workload as
\* it is, the watcher goes straight on to the next container without a
\* status poll, and the container has one update call and one outcome, a
\* failure, in the cycle.
C21_AbsentContainerNotFound ==
    /\ [][(PatchTargetAbsent /\ pc' # "patch") =>
              /\ tmpl' = tmpl
              /\ rolling' = rolling
              /\ pc' = "scan"
              /\ idx' = idx + 1
              /\ failed' = failed + 1
              /\ updated' = updated
              /\ log'[idx].outcome \in {"notfound", "patchfail"}]_vars
    /\ [](\A i \in Positions :
              log[i].outcome = "notfound" =>
                  /\ Cardinality({k \in 1..Len(patchCalls) : patchCalls[k].pos = i}) = 1
                  /\ enabled => /\ Len(ResultsFor(i)) = 1
                                /\ ~ResultsFor(i)[1].success)

\* a cycle ended after an update call found its container gone
C21_NotFoundReported ==
    \E i \in Positions : log[i].outcome = "notfound" /\ enabled /\ CycleOver

\* what the loop of check can leave at a position it is done with
ResolvedOutcomes == FailureOutcomes \cup {"skipped", "uptodate", "updated"}

\* C22: a summary is sent only when the loop over the containers of the
\* cycle is over: once one was sent, every container of the inventory has
\* been dealt with, no check, patch or poll is going on, and the outcome
\* list is not added to before the next cycle resets it.
C22_SummaryAfterAllResolved ==
    /\ [](sent # <<>> =>
              /\ pc = "idle"
              /\ idx > Len(inventory)
              /\ \A i \in Positions : log[i].outcome \in ResolvedOutcomes)
    /\ [][(sent # <<>> /\ results' # results) => results' = <<>>]_vars

\* a summary went out after a cycle with a failure and a success
C22_SummaryOfTwo ==
    /\ sent # <<>>
    /\ Len(inventory) = 2
    /\ log[1].outcome = "timeout"
    /\ log[2].outcome = "updated"

\* the positions of the inventory that have an outcome for the notifier
Reported == {i \in Positions : log[i].outcome \in FailureOutcomes \cup {"updated"}}

\* C23: the outcome list holds the outcomes of the running cycle and nothing
\* else: it is empty when the loop starts, each of its entries is the one
\* outcome of a container this cycle dealt with, and a cycle sends at most
\* one summary, made of these entries.
C23_OutcomesCycleScoped ==
    /\ (pc = "scan" /\ idx = 1) => results = <<>>
    /\ \A k \in 1..Len(results) :
          /\ results[k].pos \in Reported
          /\ results[k].success <=> log[results[k].pos].outcome = "updated"
          /\ results[k].image = inventory[results[k].pos].image
    /\ \A i \in Positions : Len(ResultsFor(i)) <= 1
    /\ Len(sent) <= 1
    /\ sent # <<>> =>
          Len(sent[1].successList) + Len(sent[1].failList) = Cardinality(Reported)

\* the second cycle found the first container pinned by the first cycle and
\* reported only its own update of the second container
C23_SecondCycleOwnOutcome ==
    /\ cycle = 2
    /\ Len(inventory) = 2
    /\ Contains(inventory[1].image, "@")
    /\ log[1].outcome = "uptodate"
    /\ log[2].outcome = "updated"
    /\ Len(sent) = 1
    /\ Len(sent[1].successList) = 1
    /\ sent[1].failList = <<>>

\* C24: in a summary "Updated: X/Y", X is the number of success outcomes
\* and the updated count of the cycle, Y is its scanned count, X <= Y; the
\* success list and the failure list together are the outcome list, the
\* first with the successes and the second with the failures, and the
\* failure list is as long as the failed count.
C24_SummaryCounts ==
    sent # <<>> =>
        LET m == sent[1]
        IN  /\ m.successCount = updated
            /\ m.successCount = Len(m.successList)
            /\ m.totalCount = scanned
            /\ m.successCount <= m.totalCount
            /\ Len(m.failList) = failed
            /\ Len(m.successList) + Len(m.failList) = Len(results)
            /\ \A k \in 1..Len(results) :
                  \/ results[k].success
                        /\ (\E j \in 1..Len(m.successList) : m.successList[j] = results[k])
                        /\ ~(\E j \in 1..Len(m.failList) : m.failList[j] = results[k])
                  \/ ~results[k].success
                        /\ (\E j \in 1..Len(m.failList) : m.failList[j] = results[k])
                        /\ ~(\E j \in 1..Len(m.successList) : m.successList[j] = results[k])

\* a summary "Updated: 1/2" with no failure: the other container was up to date
C24_OneOfTwo ==
    /\ sent # <<>>
    /\ sent[1].successCount = 1
    /\ sent[1].totalCount = 2
    /\ sent[1].failList = <<>>

\* C25: a check whose inventory listing fails has made no patch call and
\* sent no summary; Run logs the error and does not hand it on: with one
\* check per run it returns nil, otherwise it goes back to the ticker, where
\* the next tick starts a check; main never takes the fatal path.
C25_ListFailureNotPropagated ==
    /\ [](/\ mainPc # "fatal"
          /\ runErr \in {"none", "nil", "canceled"}
          /\ (runPc = "checked" /\ checkRes.err) =>
                 (checkRes.patches = 0 /\ checkRes.sent = 0)
          /\ (runPc = "ticker" /\ checks < MaxChecks) => ENABLED RunTick)
    /\ [][(runPc = "checked" /\ checkRes.err /\ runPc' # runPc) =>
              /\ logged' = logged + 1
              /\ IF runOnce
                 THEN runPc' = "returned" /\ runErr' = "nil"
                 ELSE runPc' = "ticker" /\ runErr' = "none"]_vars

\* after a check that could not list the inventory the next tick started
\* another check
C25_NextCheckAfterFailure ==
    /\ ~runOnce
    /\ runPc = "check"
    /\ checks = 2
    /\ checkRes.err
    /\ logged = 1
    /\ mainPc = "run"

\* C26: once the goroutine has received a signal the context is cancelled,
\* Run returns and main reaches its last log line, the process ending in no
\* other way; main never takes the fatal path, not for context.Canceled
\* either; the goroutine closes done with or without a signal, so main does
\* not stay blocked on done.
C26_CleanShutdown ==
    /\ [](/\ mainPc # "fatal"
          /\ handlerPc \in {"signalled", "closedSig"} =>
                 (ctxDone /\ mainPc # "exited")
          /\ mainPc = "stopped" =>
                 /\ handlerPc \in {"closedSig", "closedCtx"}
                 /\ runPc = "returned"
                 /\ runErr \in {"nil", "canceled"})
    /\ (handlerPc = "signalled") ~> (mainPc = "stopped")
    /\ (mainPc = "waitdone") ~> (mainPc = "stopped")

----------------------------------------------------------------------------
(* The inventory reader *)

\* the reader has returned
Listed == lPhase \in {"listed", "scanned", "failed"}

\* the namespace of the object is one of the names of the deny-list
InDenyList(object) ==
    \E i \in 1..Len(lExclude) : lExclude[i] = object.Namespace

\* the workload of this name is among the returned ones
Returned(name) ==
    \E i \in 1..Len(lResult.workloads) : lResult.workloads[i].Name = name

\* C27: a workload whose namespace is in the deny-list is not among the
\* workloads ListWorkloads returns, so none of its containers is gone over
\* by check, which requests digests, patches and records outcomes only for
\* the containers it goes over; and the reader changes nothing in the
\* cluster.
C27_DeniedNamespaceNotScanned ==
    /\ [](Listed =>
            \A o \in 1..Len(lCluster) :
                InDenyList(lCluster[o]) =>
                    /\ ~Returned(lCluster[o].Name)
                    /\ \A pair \in lScanned : pair[1] # lCluster[o].Name)
    /\ [][lCluster' = lCluster]_vars

\* a workload of a denied namespace is left out, listed after an empty entry
\* of the deny-list, and the workload of the other namespace is scanned
C27_DeniedSkippedOtherScanned ==
    /\ lPhase = "scanned"
    /\ lExclude = <<"", "kube-system">>
    /\ lCluster[1].Namespace = "default"
    /\ lCluster[2].Available = 1
    /\ lScanned = {<<"web", "app">>}

\* C28: a Deployment, DaemonSet or StatefulSet that reports no available
\* replica is not among the workloads ListWorkloads returns, and check goes
\* over none of its containers.
C28_UnavailableNotReturned ==
    Listed =>
        \A o \in 1..Len(lCluster) :
            lCluster[o].Available <= 0 =>
                /\ ~Returned(lCluster[o].Name)
                /\ \A pair \in lScanned : pair[1] # lCluster[o].Name

\* a DaemonSet with a monitored container and no available replica is left
\* out while the StatefulSet with one is scanned
C28_UnavailableDaemonSetSkipped ==
    /\ lPhase = "scanned"
    /\ lExclude = <<>>
    /\ lCluster[1].Type = "DaemonSet"
    /\ lCluster[1].Available = 0
    /\ lCluster[1].Containers = <<AppContainer>>
    /\ lCluster[2].Available = 1
    /\ lScanned = {<<"db", "app">>}

\* the containers of the pod template of the workload of this name
TemplateOf(name) ==
    LET o == CHOOSE i \in 1..Len(lCluster) : lCluster[i].Name = name
    IN  lCluster[o].Containers

\* C29: every container of a returned workload is a container of its pod
\* template whose imagePullPolicy is Always, a container with another policy
\* is in no returned workload and is not gone over by check, a workload
\* without a container of policy Always is not returned, and no returned
\* workload has an empty container list.
C29_OnlyPullAlwaysMonitored ==
    Listed =>
        /\ \A i \in 1..Len(lResult.workloads) :
              /\ Len(lResult.workloads[i].Containers) > 0
              /\ \A k \in 1..Len(lResult.workloads[i].Containers) :
                    \E t \in 1..Len(TemplateOf(lResult.workloads[i].Name)) :
                        LET c == TemplateOf(lResult.workloads[i].Name)[t]
                        IN  /\ c.Name = lResult.workloads[i].Containers[k].Name
                            /\ c.Image = lResult.workloads[i].Containers[k].Image
                            /\ c.ImagePullPolicy = "Always"
        /\ \A o \in 1..Len(lCluster) :
              /\ \A t \in 1..Len(lCluster[o].Containers) :
                    lCluster[o].Containers[t].ImagePullPolicy # "Always" =>
                        <<lCluster[o].Name, lCluster[o].Containers[t].Name>>
                            \notin lScanned
              /\ (\A t \in 1..Len(lCluster[o].Containers) :
                    lCluster[o].Containers[t].ImagePullPolicy # "Always")
                        => ~Returned(lCluster[o].Name)

\* of a template with a container of policy IfNotPresent before one of
\* policy Always, only the second is scanned
C29_SidecarLeftOut ==
    /\ lPhase = "scanned"
    /\ lCluster[1].Containers = <<SidecarContainer, AppContainer>>
    /\ lCluster[2].Available = 0
    /\ lScanned = {<<"web", "app">>}

\* the object of the cluster a returned workload was made of
ObjectOf(name) ==
    lCluster[CHOOSE i \in 1..Len(lCluster) : lCluster[i].Name = name]

\* the workload passes the filters of the reader
Monitored(object) ==
    /\ object.Available > 0
    /\ ~InDenyList(object)
    /\ \E t \in 1..Len(object.Containers) :
          object.Containers[t].ImagePullPolicy = "Always"

\* the digests the pods at these positions report for the container
DigestsReported(items, positions, name) ==
    UNION {{extractDigestFromImageID(items[p].ContainerStatuses[s].ImageID) :
                s \in {t \in 1..Len(items[p].ContainerStatuses) :
                          items[p].ContainerStatuses[t].Name = name}} :
           p \in positions}

\* the first pod of the list whose phase is Running, if any
FirstRunning(items) ==
    {p \in 1..Len(items) :
        /\ items[p].Phase = "Running"
        /\ \A q \in 1..(p - 1) : items[q].Phase # "Running"}

\* the pods of the list that are ready
ReadyPods(items) == {p \in 1..Len(items) : items[p].Ready}

\* C30 as stated: a digest attached to a container is one a ready pod of the
\* workload reports for it, and a workload that passes the filters is
\* returned whatever its pods are.
C30_DigestOfReadyPod ==
    (Listed /\ ~lResult.err) =>
        /\ \A o \in 1..Len(lCluster) :
              Monitored(lCluster[o]) => Returned(lCluster[o].Name)
        /\ \A i \in 1..Len(lResult.workloads) :
              \A k \in 1..Len(lResult.workloads[i].Containers) :
                 LET c == lResult.workloads[i].Containers[k]
                     pods == ObjectOf(lResult.workloads[i].Name).Pods
                 IN  c.CurrentDigest # Empty =>
                        c.CurrentDigest \in
                            DigestsReported(pods.Items, ReadyPods(pods.Items),
                                            c.Name)

\* C30, amended: the digest attached to a container is the one the first
\* pod in phase Running reports for it, ready or not, and it is empty when
\* the pods cannot be listed, none is listed, none is running, the pod has
\* no status for the container or the status has no digest; a workload that
\* passes the filters is returned whatever its pods are.
C30_DigestOfFirstRunningPod ==
    (Listed /\ ~lResult.err) =>
        /\ \A o \in 1..Len(lCluster) :
              Monitored(lCluster[o]) => Returned(lCluster[o].Name)
        /\ \A i \in 1..Len(lResult.workloads) :
              \A k \in 1..Len(lResult.workloads[i].Containers) :
                 LET c == lResult.workloads[i].Containers[k]
                     pods == ObjectOf(lResult.workloads[i].Name).Pods
                     reported == DigestsReported(pods.Items,
                                                 FirstRunning(pods.Items),
                                                 c.Name)
                 IN  IF pods.ok /\ reported # {}
                     THEN c.CurrentDigest \in reported
                     ELSE c.CurrentDigest = Empty

\* the only pod of the first workload is pending: both workloads are
\* returned, the first with no digest and the second with the digest of its
\* running pod
C30_PendingPodNoDigest ==
    /\ lPhase = "scanned"
    /\ lCluster[1].Type = "Deployment"
    /\ lCluster[1].Pods = [ok |-> TRUE, Items |-> <<PodPending>>]
    /\ Len(lResult.workloads) = 2
    /\ lResult.workloads[1].Containers[1].CurrentDigest = Empty
    /\ lResult.workloads[2].Containers[1].CurrentDigest = DigA

----------------------------------------------------------------------------
(* The cycle, continued *)

\* the digest of the container at position i was requested and not resolved
ResolutionFailed(i) == log[i].requested /\ ~log[i].resolved

\* C31: a container whose remote digest could not be resolved has exactly
\* one outcome, a failure, counted once in failed, and no patch call; the
\* step in which the resolution fails adds one to failed and leaves the
\* workload as it is.
C31_DigestFailureOneOutcome ==
    /\ [](\A i \in Positions :
            ResolutionFailed(i) =>
                /\ log[i].outcome = "digestfail"
                /\ ~Attempted(i)
                /\ enabled => /\ Len(ResultsFor(i)) = 1
                              /\ ~ResultsFor(i)[1].success)
    /\ [][(/\ pc = "scan"
           /\ idx <= Len(log)
           /\ ~log[idx].requested
           /\ log'[idx].requested
           /\ ~log'[idx].resolved)
            => /\ failed' = failed + 1
               /\ tmpl' = tmpl
               /\ rolling' = rolling
               /\ patchCalls' = patchCalls]_vars

\* the inventory positions of the template container of this name
TagPositionsOf(name) ==
    {i \in 1..Len(tInventory) : tInventory[i].Name = name}

\* C32: in the revision that tracks the tag latest, a container whose
\* declared tag is another one has no digest lookup, no patch call and no
\* notification, and scanned counts only containers of declared tag latest:
\* one for each lookup made.
C32_OtherTagSkipped ==
    tPhase \in {"check", "done"} =>
        /\ \A t \in 1..Len(tInput.containers) :
              RefTag(tInput.containers[t].Image) # Latest =>
                 LET at == TagPositionsOf(tInput.containers[t].Name)
                 IN  /\ \A k \in 1..Len(tLog.lookups) : tLog.lookups[k].pos \notin at
                     /\ \A k \in 1..Len(tLog.patches) : tLog.patches[k].pos \notin at
                     /\ \A k \in 1..Len(tLog.notes) : tLog.notes[k].pos \notin at
        /\ tLog.scanned = Len(tLog.lookups)
        /\ \A k \in 1..Len(tLog.lookups) :
              /\ RefTag(tInventory[tLog.lookups[k].pos].Image) = Latest
              /\ \A j \in 1..Len(tLog.lookups) :
                    tLog.lookups[j].pos = tLog.lookups[k].pos => j = k

\* the container declaring app:v1 with pull policy Always is passed over and
\* the other container of the template is the only one scanned
C32_V1PassedOver ==
    /\ tPhase = "done"
    /\ tInput.containers[1].Image = <<"app", ":", "v1">>
    /\ tInput.containers[1].ImagePullPolicy = "Always"
    /\ tInput.disabled = {}
    /\ tLog.scanned = 1
    /\ tLog.completed = <<[updated |-> 1, scanned |-> 1]>>

----------------------------------------------------------------------------
(* One update *)

\* the positions of an event in the trace of the update
At(event) == {i \in 1..Len(uTrace) : uTrace[i] = event}

UpdateFailures == {"patchfail", "pollfail", "timeout"}

\* no call of the update has failed
NothingFailed == \A i \in 1..Len(uTrace) : uTrace[i] \notin UpdateFailures

\* C33: a success is recorded, and updated incremented, only after the
\* patch was accepted and a later poll saw the rollout complete, in that
\* order; the cleanup runs only after that poll and only with the cleanup
\* flag set, never after a refused patch, a failed poll or a timeout.
C33_SuccessAfterPatchAndRollout ==
    /\ uOut.updated = Cardinality(At("success"))
    /\ \A s \in At("success") :
          /\ NothingFailed
          /\ \E p \in At("patched"), c \in At("complete") : p < c /\ c < s
    /\ \A k \in At("cleaned") \cup At("cleanupfail") :
          /\ uCfg.cleanup
          /\ NothingFailed
          /\ \E p \in At("patched"), c \in At("complete") : p < c /\ c < k

\* an update whose rollout was complete at the third poll, cleaned up and
\* recorded as a success
C33_CleanedAndRecorded ==
    /\ uPc = "recorded"
    /\ uElapsed = 2 * PollInterval
    /\ uTrace = <<"patched", "complete", "cleaned", "success">>
    /\ uOut = [updated |-> 1, failed |-> 0, results |-> <<TRUE>>]

----------------------------------------------------------------------------
(* The process, continued *)

\* C34: in continuous mode no check is started once the context is
\* cancelled, and a check is started only while Run waits, for its first
\* run or for a tick, never while another check is running.
C34_NoCheckAfterCancel ==
    /\ [][(~runOnce /\ ctxDone) => checks' = checks]_vars
    /\ [][checks' # checks =>
            /\ runPc \in {"first", "ticker"}
            /\ runPc' = "check"
            /\ checks' = checks + 1]_vars

----------------------------------------------------------------------------
(* The credential lookup, continued *)

\* the registry a reference names: what precedes its first "/" when that
\* holds a "." or a ":", Docker Hub otherwise
ReferenceRegistry(reference) ==
    IF ~Contains(reference, "/") THEN <<"index.docker.io">>
    ELSE LET first == SubSeq(reference, 1, Index(reference, "/") - 1)
         IN  IF Contains(first, ":") \/ \E i \in 1..Len(first) : first[i] \in DottedWords
             THEN first
             ELSE <<"index.docker.io">>

\* the registry getRemoteDigest contacts for the image
ContactedRegistry(image) == ReferenceRegistry(ImageName(ParseImage(image)))

\* C35: the credential returned for an image belongs to the registry the
\* digest lookup contacts: its normalised registry is that host, or both are
\* names of Docker Hub.
C35_CredentialOfContactedRegistry ==
    (cPhase = "requested" /\ cCred # <<>>) =>
        LET secret == normalizeRegistry(cCred[1].Registry)
            host == ToLower(ContactedRegistry(cImage))
        IN  \/ secret = host
            \/ /\ secret \in dockerHubRegistries
               /\ host \in dockerHubRegistries

----------------------------------------------------------------------------
(* The counters of a cycle *)

\* the inventory positions whose container is not on the deny-list
Eligible == {i \in Positions : inventory[i].name \notin disabled}

\* C36: updated + failed never exceeds scanned, a container has at most one
\* result, and an enabled notifier holds exactly updated + failed results;
\* when the cycle is over scanned is the number of containers that passed
\* the filters, updated the number of them that ended updated and failed the
\* number of them that ended in a failure.
C36_CountersConsistent ==
    /\ updated + failed <= scanned
    /\ \A i \in Positions : Len(ResultsFor(i)) <= 1
    /\ Len(results) = IF enabled THEN updated + failed ELSE 0
    /\ CycleOver =>
          /\ scanned = Cardinality(Eligible)
          /\ updated = Cardinality({i \in Eligible : log[i].outcome = "updated"})
          /\ failed = Cardinality({i \in Eligible : log[i].outcome \in FailureOutcomes})

\* a cycle over two containers, one updated and one failed, both reported
C36_OneUpdatedOneFailed ==
    /\ CycleOver
    /\ enabled
    /\ scanned = 2
    /\ updated = 1
    /\ failed = 1
    /\ Len(results) = 2


-----------------------------------------------------------------------------
(* One write of an image *)

\* the write of the call in this step
ImageWritten == iPc = "set" /\ iPc' = "nil"

\* C38: a successful UpdateWorkloadImage writes the object it read in the
\* same call, and in the pod template changes only the image of the named
\* container and the updated-at annotation: every other container and every
\* other annotation is stored as it was.
C38_OnlyImageAndStamp ==
    [][ImageWritten =>
          /\ iHeld.version = iServer.version
          /\ iHeld.containers = iServer.containers
          /\ iHeld.annotations = iServer.annotations
          /\ Len(iServer'.containers) = Len(iServer.containers)
          /\ \A k \in 1..Len(iServer.containers) :
                /\ iServer'.containers[k].name = iServer.containers[k].name
                /\ iServer'.containers[k].image =
                      IF iServer.containers[k].name = iCall.container
                      THEN iCall.image
                      ELSE iServer.containers[k].image
          /\ DOMAIN iServer'.annotations.map =
                DOMAIN iServer.annotations.map \cup {UpdatedAt}
          /\ \A key \in DOMAIN iServer'.annotations.map :
                iServer'.annotations.map[key] =
                   IF key = UpdatedAt THEN iCall.now
                   ELSE iServer.annotations.map[key]]_vars

C38_SidecarAndOwnerKept ==
    /\ iPc = "nil"
    /\ iCall.container = "app"
    /\ iServer.version = 2
    /\ iServer.containers = <<[name |-> "side", image |-> ImgUpper],
                              [name |-> "app", image |-> iCall.image]>>
    /\ iServer.annotations.map =
          [k \in {"owner", UpdatedAt} |-> IF k = "owner" THEN "team" ELSE "T2"]


-----------------------------------------------------------------------------
(* The two readers of a tag *)

\* C39: the tag the inventory reader attaches to a container is the tag
\* ParseImage yields for the image of the container, so every digest lookup
\* of the cycle asks for the repository of the image under the tag that made
\* the container eligible.
C39_SameTagAsParseImage ==
    tPhase \in {"check", "done"} =>
        /\ \A i \in 1..Len(tInventory) :
              tInventory[i].Tag = ParseImage(tInventory[i].Image).Tag
        /\ \A k \in 1..Len(tLog.lookups) :
              tLog.lookups[k].name =
                 ParseImage(tInventory[tLog.lookups[k].pos].Image).Repository
                    \o <<":">> \o tInventory[tLog.lookups[k].pos].Tag

====
